---- MODULE Spec2Model ----
(***************************************************************************)
(* A model of the zeroclaw agent core: the web session store               *)
(* (src/web/session.rs), the tool-call parser and the agent turn loop      *)
(* (src/agent/loop_.rs).                                                   *)
(*                                                                         *)
(* Text is modelled as a sequence of tokens.  A token is an atomic piece   *)
(* of text: a marker, a blank, a word, or a JSON payload.  No token is a   *)
(* proper part of a marker, so searching a text for a marker is searching  *)
(* the sequence for the marker token.                                      *)
(***************************************************************************)
EXTENDS Integers, Sequences, FiniteSets, TLC

\* ------------------------------------------------------------------ bounds

\* Store: the constructor arguments SessionManager::new is called with.
MaxMaxSessions == 2
MaxTimeoutSecs == 1
\* Store: clock resolution and horizon, number of uuids drawn, calls made.
TicksPerSec == 2
MaxTime == 2
MaxIds == 3
MaxCalls == 3
\* Store: how far below the history limit a long-lived session may start.
SeedSlack == 1
\* Parser: the number of segments a text is made of.
MaxSegments == 4
\* delegate calls started in a behaviour of the delegate tool
MaxDelegations == 4
\* frames received by the gateway's connections in a behaviour
MaxFrames == 3
\* messages beyond the limit in the histories handed to the trims
TrimSlack == 20
\* messages beyond the limit in the histories handed to Session::trim_history
SessionSlack == 5
\* trims applied in a row
MaxTrims == 2
\* messages the interactive loop receives in a behaviour
MaxTurns == 2
\* length of an Authorization header value, and of a token
MaxHeaderLen == 3
MaxTokenLen == 2

\* ------------------------------------------------------------- variables

VARIABLES
    \* SessionManager (src/web/session.rs)
    sessions,       \* HashMap<String, Session>, a function on the stored ids
    lock,           \* the holder of the tokio Mutex around the map, or NoProc
    max_sessions,   \* SessionManager.max_sessions
    timeout_secs,   \* SessionManager.timeout_secs
    now,            \* the monotonic clock Instant::now() reads, in ticks
    next_uuid,      \* the number of uuids drawn so far
    pc,             \* each caller's position inside a store call
    arg,            \* each caller's arguments of the call in progress
    ret,            \* the value the most recent store call returned
    store_calls,    \* the number of store calls started
    \* parse_tool_calls (src/agent/loop_.rs)
    parse_input,    \* the text handed to parse_tool_calls
    parse_output,   \* what it returned, <<>> before the call
    \* agent_turn (src/agent/loop_.rs)
    history,        \* the caller's Vec<ChatMessage> the turn works on
    silent,         \* the `silent` argument
    turn_pc,        \* idle, provider (awaiting chat_with_history), tools
                    \* (between two calls), tool (awaiting execute), done
    iteration,      \* the for loop's _iteration
    response,       \* the provider response of this iteration
    tool_calls,     \* the calls parsed from it
    call_idx,       \* the position in tool_calls of the call being run
    tool_results,   \* the String the result blocks are written to
    turn_result,    \* what agent_turn returned
    events,         \* the events the observer has recorded, in order
    stdout,         \* the texts printed
    in_flight,      \* the futures awaited and not yet complete
    done_calls,     \* the calls of this iteration that have completed
    provider_calls, \* the number of chat_with_history calls made
    \* DelegateTool (src/tools/delegate.rs)
    current_depth,  \* DelegateTool.current_depth, the shared AtomicU32
    deleg_pc,       \* each execute call's position: idle, admitted (depth
                    \* loaded and found below the limit), awaiting (the
                    \* sub-agent's chat_with_system)
    deleg_arg,      \* each execute call's `args`
    deleg_ret,      \* what the most recent execute call returned
    deleg_started,  \* the number of execute calls started
    sub_calls,      \* the number of chat_with_system calls made
    \* handle_ws (src/web/ws.rs), one per connection, on the shared store
    gw_pc,          \* each handler's position: recv (awaiting the next
                    \* frame), or the store or provider call it awaits next
    gw_cur,         \* each handler's locals for the message being handled
    outbox,         \* the ServerMessages each handler has sent, in order
    gw_frames,      \* the number of frames received over all connections
    gw_calls,       \* the provider calls made, in order, each with the
                    \* connection, the Chat's content and the history passed
    \* trim_history and the interactive loop of run (src/agent/loop_.rs)
    trim_h,         \* the Vec<ChatMessage> a trim is applied to
    trim_prev,      \* what it held before the most recent trim
    trim_by,        \* the function most recently applied: loop for
                    \* trim_history, session for Session::trim_history
    trim_n,         \* the number of trims applied
    loop_history,   \* run's `history`, as it is when rx.recv() is awaited
    loop_turns,     \* the number of messages the loop has received
    \* check_auth (src/web/auth.rs)
    token_config,   \* the configured token
    headers,        \* the request's Authorization header: <<>> when absent,
                    \* <<value>> when present
    query,          \* the request's `token` query parameter, likewise
    authorized      \* what check_auth returned, <<>> before the call

store_vars == <<sessions, lock, max_sessions, timeout_secs, now, next_uuid,
                pc, arg, ret, store_calls>>

parse_vars == <<parse_input, parse_output>>

turn_vars == <<history, silent, turn_pc, iteration, response, tool_calls,
               call_idx, tool_results, turn_result, events, stdout,
               in_flight, done_calls, provider_calls>>

deleg_vars == <<current_depth, deleg_pc, deleg_arg, deleg_ret, deleg_started,
                sub_calls>>

gw_vars == <<gw_pc, gw_cur, outbox, gw_frames, gw_calls>>

run_vars == <<trim_h, trim_prev, trim_by, trim_n, loop_history, loop_turns>>

auth_vars == <<token_config, headers, query, authorized>>

vars == <<store_vars, parse_vars, turn_vars, deleg_vars, gw_vars, run_vars,
          auth_vars>>

\* What a step of one part of the program leaves alone.
not_store_vars == <<parse_vars, turn_vars, deleg_vars, gw_vars, run_vars, auth_vars>>
not_parse_vars == <<store_vars, turn_vars, deleg_vars, gw_vars, run_vars, auth_vars>>
not_turn_vars == <<store_vars, parse_vars, deleg_vars, gw_vars, run_vars, auth_vars>>
not_deleg_vars == <<store_vars, parse_vars, turn_vars, gw_vars, run_vars, auth_vars>>
not_gw_vars == <<parse_vars, turn_vars, deleg_vars, run_vars, auth_vars>>
not_run_vars == <<store_vars, parse_vars, turn_vars, deleg_vars, gw_vars, auth_vars>>
not_auth_vars == <<store_vars, parse_vars, turn_vars, deleg_vars, gw_vars, run_vars>>

\* ------------------------------------------------------------ ChatMessage

Roles == {"system", "user", "assistant"}

ChatMessage(role, content) == [role |-> role, content |-> content]

\* ================================================================ the store

\* Maximum non-system messages kept in a session's history.
MAX_HISTORY_MESSAGES == 50

Procs == {"c1", "c2"}
NoProc == "none"
Ids == 1..MaxIds

NoMsg == ChatMessage("user", <<>>)
NoArg == [id |-> 0, msg |-> NoMsg]
NoRet == [op |-> "none", ok |-> TRUE, id |-> 0, history |-> <<>>,
          infos |-> {}, n |-> 0]

\* Duration::as_secs of a duration given in ticks.
as_secs(d) == d \div TicksPerSec

\* Session::new
Session_new(id) ==
    [id |-> id, history |-> <<>>, created_at |-> now, last_activity |-> now]

non_system_count(h) == Cardinality({i \in 1..Len(h) : h[i].role # "system"})

\* Vec::retain with the closure of Session::trim_history: system messages
\* stay, the first `excess` other messages go, the rest stay.
RECURSIVE retain_from(_, _, _, _)
retain_from(h, i, removed, excess) ==
    IF i > Len(h) THEN <<>>
    ELSE IF h[i].role = "system"
         THEN <<h[i]>> \o retain_from(h, i + 1, removed, excess)
    ELSE IF removed < excess
         THEN retain_from(h, i + 1, removed + 1, excess)
    ELSE <<h[i]>> \o retain_from(h, i + 1, removed, excess)

\* Session::trim_history, were it to drop one message per call.
Session_trim_history_one_per_call(h) ==
    IF non_system_count(h) > MAX_HISTORY_MESSAGES
    THEN retain_from(h, 1, 0, 1)
    ELSE h

\* Session::trim_history
Session_trim_history(h) ==
    LET non_system == non_system_count(h) IN
    IF non_system > MAX_HISTORY_MESSAGES
    THEN retain_from(h, 1, 0, non_system - MAX_HISTORY_MESSAGES)
    ELSE h

\* Mutex::lock: granted when nobody holds the mutex.
lock_free == lock = NoProc

CanCall(p) == pc[p] = "idle" /\ lock_free /\ store_calls < MaxCalls

Return(p, r) ==
    /\ pc' = [pc EXCEPT ![p] = "idle"]
    /\ arg' = [arg EXCEPT ![p] = NoArg]
    /\ ret' = r
    /\ lock' = NoProc

\* create_session_check with the capacity test off by one (> for >=).
create_session_check_off_by_one(p) ==
    /\ CanCall(p)
    /\ next_uuid < MaxIds
    /\ store_calls' = store_calls + 1
    /\ IF Cardinality(DOMAIN sessions) > max_sessions
       THEN /\ Return(p, [NoRet EXCEPT !.op = "create_session", !.ok = FALSE])
            /\ UNCHANGED <<sessions, next_uuid>>
       ELSE /\ pc' = [pc EXCEPT ![p] = "create_insert"]
            /\ lock' = p
            /\ UNCHANGED <<sessions, next_uuid, arg, ret>>
    /\ UNCHANGED <<max_sessions, timeout_secs, now>>

\* create_session, up to the capacity check: takes the lock, and returns the
\* error when the map is full.
create_session_check(p) ==
    /\ CanCall(p)
    /\ Cardinality(DOMAIN sessions) < max_sessions => next_uuid < MaxIds
    /\ store_calls' = store_calls + 1
    /\ IF Cardinality(DOMAIN sessions) >= max_sessions
       THEN /\ Return(p, [NoRet EXCEPT !.op = "create_session", !.ok = FALSE])
            /\ UNCHANGED <<sessions, next_uuid>>
       ELSE /\ pc' = [pc EXCEPT ![p] = "create_insert"]
            /\ lock' = p
            /\ UNCHANGED <<sessions, next_uuid, arg, ret>>
    /\ UNCHANGED <<max_sessions, timeout_secs, now>>

\* create_session, after the check: draws the uuid, inserts the session and
\* drops the lock.
create_session_insert(p) ==
    /\ pc[p] = "create_insert"
    /\ LET id == next_uuid + 1 IN
       /\ next_uuid' = id
       /\ sessions' = [i \in DOMAIN sessions \cup {id} |->
                          IF i = id THEN Session_new(id) ELSE sessions[i]]
       /\ Return(p, [NoRet EXCEPT !.op = "create_session", !.id = id])
    /\ UNCHANGED <<max_sessions, timeout_secs, now, store_calls>>

\* get_history creating the session it does not find (entry().or_insert).
get_history_or_insert(p) ==
    /\ CanCall(p)
    /\ store_calls' = store_calls + 1
    /\ \E id \in Ids :
        IF id \in DOMAIN sessions
        THEN /\ sessions' = [sessions EXCEPT ![id].last_activity = now]
             /\ Return(p, [NoRet EXCEPT !.op = "get_history", !.id = id,
                                        !.history = sessions[id].history])
        ELSE /\ Return(p, [NoRet EXCEPT !.op = "get_history", !.id = id,
                                        !.ok = FALSE])
             /\ sessions' = [i \in DOMAIN sessions \cup {id} |->
                                IF i = id THEN Session_new(id) ELSE sessions[i]]
    /\ UNCHANGED <<max_sessions, timeout_secs, now, next_uuid>>

\* get_history returning the history without stamping last_activity.
get_history_unstamped(p) ==
    /\ CanCall(p)
    /\ store_calls' = store_calls + 1
    /\ \E id \in Ids :
        IF id \in DOMAIN sessions
        THEN /\ Return(p, [NoRet EXCEPT !.op = "get_history", !.id = id,
                                        !.history = sessions[id].history])
             /\ UNCHANGED sessions
        ELSE /\ Return(p, [NoRet EXCEPT !.op = "get_history", !.id = id,
                                        !.ok = FALSE])
             /\ UNCHANGED sessions
    /\ UNCHANGED <<max_sessions, timeout_secs, now, next_uuid>>

\* get_history: on a stored id stamps last_activity and returns a copy of the
\* history, on any other id returns the error.
get_history(p) ==
    /\ CanCall(p)
    /\ store_calls' = store_calls + 1
    /\ \E id \in Ids :
        IF id \in DOMAIN sessions
        THEN /\ sessions' = [sessions EXCEPT ![id].last_activity = now]
             /\ Return(p, [NoRet EXCEPT !.op = "get_history", !.id = id,
                                        !.history = sessions[id].history])
        ELSE /\ Return(p, [NoRet EXCEPT !.op = "get_history", !.id = id,
                                        !.ok = FALSE])
             /\ UNCHANGED sessions
    /\ UNCHANGED <<max_sessions, timeout_secs, now, next_uuid>>

\* add_message_push dropping the lock before the trim.
add_message_push_unlocked(p) ==
    /\ CanCall(p)
    /\ store_calls' = store_calls + 1
    /\ \E id \in Ids, role \in Roles :
        LET message == ChatMessage(role, <<ToString(store_calls + 1)>>) IN
        IF id \in DOMAIN sessions
        THEN /\ sessions' = [sessions EXCEPT
                    ![id].last_activity = now,
                    ![id].history = Append(@, message)]
             /\ pc' = [pc EXCEPT ![p] = "add_trim"]
             /\ arg' = [arg EXCEPT ![p] = [id |-> id, msg |-> message]]
             /\ lock' = NoProc
             /\ UNCHANGED ret
        ELSE /\ Return(p, [NoRet EXCEPT !.op = "add_message", !.id = id,
                                        !.ok = FALSE])
             /\ UNCHANGED sessions
    /\ UNCHANGED <<max_sessions, timeout_secs, now, next_uuid>>

\* add_message, up to the push: takes the lock, and on a stored id stamps
\* last_activity and pushes the message.
add_message_push(p) ==
    /\ CanCall(p)
    /\ store_calls' = store_calls + 1
    /\ \E id \in Ids, role \in Roles :
        LET message == ChatMessage(role, <<ToString(store_calls + 1)>>) IN
        IF id \in DOMAIN sessions
        THEN /\ sessions' = [sessions EXCEPT
                    ![id].last_activity = now,
                    ![id].history = Append(@, message)]
             /\ pc' = [pc EXCEPT ![p] = "add_trim"]
             /\ arg' = [arg EXCEPT ![p] = [id |-> id, msg |-> message]]
             /\ lock' = p
             /\ UNCHANGED ret
        ELSE /\ Return(p, [NoRet EXCEPT !.op = "add_message", !.id = id,
                                        !.ok = FALSE])
             /\ UNCHANGED sessions
    /\ UNCHANGED <<max_sessions, timeout_secs, now, next_uuid>>

\* add_message, after the push: trims the history and drops the lock.
add_message_trim(p) ==
    /\ pc[p] = "add_trim"
    /\ LET id == arg[p].id IN
       /\ sessions' = [sessions EXCEPT
                ![id].history = Session_trim_history(@)]
       /\ Return(p, [NoRet EXCEPT !.op = "add_message", !.id = id])
    /\ UNCHANGED <<max_sessions, timeout_secs, now, next_uuid, store_calls>>

SessionInfo(s) ==
    [id |-> s.id, message_count |-> Len(s.history),
     age_secs |-> as_secs(now - s.created_at)]

\* list_sessions, were it to take the sessions out of the map.
list_sessions_draining(p) ==
    /\ CanCall(p)
    /\ store_calls' = store_calls + 1
    /\ Return(p, [NoRet EXCEPT !.op = "list_sessions",
                    !.infos = {SessionInfo(sessions[i]) : i \in DOMAIN sessions}])
    /\ sessions' = <<>>
    /\ UNCHANGED <<max_sessions, timeout_secs, now, next_uuid>>

list_sessions(p) ==
    /\ CanCall(p)
    /\ store_calls' = store_calls + 1
    /\ Return(p, [NoRet EXCEPT !.op = "list_sessions",
                    !.infos = {SessionInfo(sessions[i]) : i \in DOMAIN sessions}])
    /\ UNCHANGED <<sessions, max_sessions, timeout_secs, now, next_uuid>>

\* cleanup_expired removing only the sessions idle for more whole seconds
\* than the timeout (<= for <).
cleanup_expired_strict(p) ==
    /\ CanCall(p)
    /\ store_calls' = store_calls + 1
    /\ LET keep == {i \in DOMAIN sessions :
                      as_secs(now - sessions[i].last_activity) <= timeout_secs}
       IN /\ sessions' = [i \in keep |-> sessions[i]]
          /\ Return(p, [NoRet EXCEPT !.op = "cleanup_expired",
                          !.n = Cardinality(DOMAIN sessions) - Cardinality(keep)])
    /\ UNCHANGED <<max_sessions, timeout_secs, now, next_uuid>>

cleanup_expired(p) ==
    /\ CanCall(p)
    /\ store_calls' = store_calls + 1
    /\ LET keep == {i \in DOMAIN sessions :
                      as_secs(now - sessions[i].last_activity) < timeout_secs}
       IN /\ sessions' = [i \in keep |-> sessions[i]]
          /\ Return(p, [NoRet EXCEPT !.op = "cleanup_expired",
                          !.n = Cardinality(DOMAIN sessions) - Cardinality(keep)])
    /\ UNCHANGED <<max_sessions, timeout_secs, now, next_uuid>>

session_exists(p) ==
    /\ CanCall(p)
    /\ store_calls' = store_calls + 1
    /\ \E id \in Ids :
        Return(p, [NoRet EXCEPT !.op = "session_exists", !.id = id,
                                !.ok = id \in DOMAIN sessions])
    /\ UNCHANGED <<sessions, max_sessions, timeout_secs, now, next_uuid>>

session_count(p) ==
    /\ CanCall(p)
    /\ store_calls' = store_calls + 1
    /\ Return(p, [NoRet EXCEPT !.op = "session_count",
                               !.n = Cardinality(DOMAIN sessions)])
    /\ UNCHANGED <<sessions, max_sessions, timeout_secs, now, next_uuid>>

\* The clock advances.
Tick ==
    /\ now < MaxTime
    /\ now' = now + 1
    /\ UNCHANGED <<sessions, lock, max_sessions, timeout_secs, next_uuid,
                   pc, arg, ret, store_calls>>

\* SessionManager::new(max_sessions, timeout_secs)
StoreNew ==
    /\ sessions = <<>>
    /\ lock = NoProc
    /\ max_sessions \in 1..MaxMaxSessions
    /\ timeout_secs \in 0..MaxTimeoutSecs
    /\ now = 0
    /\ next_uuid = 0
    /\ pc = [p \in Procs |-> "idle"]
    /\ arg = [p \in Procs |-> NoArg]
    /\ ret = NoRet
    /\ store_calls = 0

StoreIdle ==
    /\ sessions = <<>>
    /\ lock = NoProc
    /\ max_sessions = 1
    /\ timeout_secs = 0
    /\ now = 0
    /\ next_uuid = 0
    /\ pc = [p \in Procs |-> "idle"]
    /\ arg = [p \in Procs |-> NoArg]
    /\ ret = NoRet
    /\ store_calls = 0

\* A history a session reaches by add_message calls alone: an optional system
\* prompt followed by n user messages.
SeedHistory(with_system, n) ==
    (IF with_system THEN <<ChatMessage("system", <<"prompt">>)>> ELSE <<>>)
    \o [i \in 1..n |-> ChatMessage("user", <<"seed", ToString(i)>>)]

\* The store some time after construction with the largest capacity and
\* timeout: one session, created by the first create_session call, whose
\* history has grown to the limit or just below.
StoreLong ==
    /\ \E with_system \in BOOLEAN,
          n \in (MAX_HISTORY_MESSAGES - SeedSlack)..MAX_HISTORY_MESSAGES :
            sessions = (1 :> [id |-> 1, history |-> SeedHistory(with_system, n),
                              created_at |-> 0, last_activity |-> 0])
    /\ lock = NoProc
    /\ max_sessions = MaxMaxSessions
    /\ timeout_secs = MaxTimeoutSecs
    /\ now = 0
    /\ next_uuid = 1
    /\ pc = [p \in Procs |-> "idle"]
    /\ arg = [p \in Procs |-> NoArg]
    /\ ret = NoRet
    /\ store_calls = 1


\* =============================================================== the parser

\* The markers of the tool-call embedding syntax, and blank text.
OPEN == "<tool_call>"
CLOSE == "</tool_call>"
Blanks == {" ", "\n"}

\* The JSON texts that occur between markers.  serde_json::from_str accepts
\* each of them; what `get("name")` and `get("arguments")` find in the parsed
\* value is given by Json.  Every other token, and every sequence of more
\* than one token, is not a JSON text.
J_SHELL == "{name:shell,arguments:{command:ls}}"
J_FAIL == "{name:fail,arguments:{}}"
J_QUIET == "{name:quiet,arguments:{}}"
J_BOOM == "{name:boom,arguments:{}}"
J_GHOST == "{name:ghost,arguments:{}}"
J_NOARGS == "{name:shell}"
J_NONAME == "{arguments:{command:ls}}"
J_NUMNAME == "{name:7}"
J_ARRAY == "[]"

JsonTexts == {J_SHELL, J_FAIL, J_QUIET, J_BOOM, J_GHOST, J_NOARGS, J_NONAME,
              J_NUMNAME, J_ARRAY}

\* name: the value of key "name" when it is a JSON string, else "none";
\* arguments: the value of key "arguments", else "none".
Json(tok) ==
    CASE tok = J_SHELL -> [name |-> <<"shell">>, arguments |-> <<"{command:ls}">>]
      [] tok = J_FAIL -> [name |-> <<"fail">>, arguments |-> <<"{}">>]
      [] tok = J_QUIET -> [name |-> <<"quiet">>, arguments |-> <<"{}">>]
      [] tok = J_BOOM -> [name |-> <<"boom">>, arguments |-> <<"{}">>]
      [] tok = J_GHOST -> [name |-> <<"ghost">>, arguments |-> <<"{}">>]
      [] tok = J_NOARGS -> [name |-> <<"shell">>, arguments |-> <<>>]
      [] tok = J_NONAME -> [name |-> <<>>, arguments |-> <<"{command:ls}">>]
      [] tok = J_NUMNAME -> [name |-> <<>>, arguments |-> <<>>]
      [] tok = J_ARRAY -> [name |-> <<>>, arguments |-> <<>>]

\* str::find of a marker: the least position holding it, 0 for None.
find(s, tok) ==
    IF \E i \in 1..Len(s) : s[i] = tok
    THEN CHOOSE i \in 1..Len(s) : s[i] = tok /\ \A j \in 1..(i - 1) : s[j] # tok
    ELSE 0

\* str::trim
trim(s) ==
    LET solid == {i \in 1..Len(s) : s[i] \notin Blanks} IN
    IF solid = {} THEN <<>>
    ELSE LET lo == CHOOSE i \in solid : \A j \in solid : i <= j
             hi == CHOOSE i \in solid : \A j \in solid : j <= i
         IN SubSeq(s, lo, hi)

\* [String]::join
RECURSIVE join(_, _)
join(parts, sep) ==
    IF Len(parts) = 0 THEN <<>>
    ELSE IF Len(parts) = 1 THEN parts[1]
    ELSE parts[1] \o <<sep>> \o join(Tail(parts), sep)

\* parse_inner pushing a nameless call for content that does not deserialize.
parse_inner_lenient(inner) ==
    LET t == trim(inner) IN
    IF Len(t) = 1 /\ t[1] \in JsonTexts
    THEN LET parsed == Json(t[1]) IN
         <<[name |-> IF parsed.name = <<>> THEN "" ELSE parsed.name[1],
            arguments |-> IF parsed.arguments = <<>> THEN "{}"
                          ELSE parsed.arguments[1]]>>
    ELSE <<[name |-> "", arguments |-> "{}"]>>

\* serde_json::from_str::<Value>(inner.trim()) followed by the Ok arm: the
\* calls it pushes.
parse_inner(inner) ==
    LET t == trim(inner) IN
    IF Len(t) = 1 /\ t[1] \in JsonTexts
    THEN LET parsed == Json(t[1]) IN
         <<[name |-> IF parsed.name = <<>> THEN "" ELSE parsed.name[1],
            arguments |-> IF parsed.arguments = <<>> THEN "{}"
                          ELSE parsed.arguments[1]]>>
    ELSE <<>>

\* The while-let loop of parse_tool_calls, from `remaining` on, with the
\* text parts and calls gathered so far, and the statements after the loop.
RECURSIVE parse_loop(_, _, _)
parse_loop(remaining, text_parts, calls) ==
    LET start == find(remaining, OPEN) IN
    IF start = 0
    THEN [text |-> join(IF trim(remaining) # <<>>
                        THEN Append(text_parts, trim(remaining))
                        ELSE text_parts, "\n"),
          calls |-> calls]
    ELSE LET before == SubSeq(remaining, 1, start - 1)
             parts == IF trim(before) # <<>>
                      THEN Append(text_parts, trim(before)) ELSE text_parts
             from_start == SubSeq(remaining, start, Len(remaining))
             end == find(from_start, CLOSE)
         IN IF end # 0
            THEN parse_loop(SubSeq(from_start, end + 1, Len(from_start)),
                            parts,
                            calls \o parse_inner(SubSeq(from_start, 2, end - 1)))
            ELSE [text |-> join(IF trim(remaining) # <<>>
                                THEN Append(parts, trim(remaining))
                                ELSE parts, "\n"),
                  calls |-> calls]

\* parse_tool_calls returning the calls last first.
parse_tool_calls_reversed(text) ==
    LET r == parse_loop(text, <<>>, <<>>)
        n == Len(r.calls)
    IN [text |-> r.text, calls |-> [k \in 1..n |-> r.calls[n + 1 - k]]]

parse_tool_calls(text) == parse_loop(text, <<>>, <<>>)

\* ============================================================ the agent turn

\* Maximum agentic tool-use iterations per user message.
MAX_TOOL_ITERATIONS == 10

\* The registry handed to agent_turn.  Each tool's execute is given by what
\* it returns: Ok(ToolResult{success, output, error}) or Err(e).  An absent
\* error is <<>>, a present one <<text>>.
Registry ==
    << [name |-> "shell", returns |-> "Ok", success |-> TRUE,
        output |-> "files", error |-> <<>>],
       [name |-> "fail", returns |-> "Ok", success |-> FALSE,
        output |-> "partial", error |-> <<"denied">>],
       [name |-> "quiet", returns |-> "Ok", success |-> FALSE,
        output |-> "nothing", error |-> <<>>],
       [name |-> "boom", returns |-> "Err", success |-> FALSE,
        output |-> "", error |-> <<"crashed">>],
       [name |-> "shell", returns |-> "Ok", success |-> FALSE,
        output |-> "shadowed", error |-> <<>>] >>

\* The texts the provider may answer with.
Responses ==
    { <<"done">>,
      <<" ", "done", "\n">>,
      <<OPEN, "junk", CLOSE>>,
      <<"checking", OPEN, J_SHELL, CLOSE, "\n", OPEN, J_GHOST, CLOSE,
        OPEN, J_BOOM, CLOSE>>,
      <<OPEN, J_FAIL, CLOSE, OPEN, "junk", CLOSE, OPEN, J_QUIET, CLOSE,
        OPEN, J_NONAME, CLOSE>> }

\* find_tool: the position of the first tool of that name, 0 for None.
find_tool(tools, name) ==
    IF \E i \in 1..Len(tools) : tools[i].name = name
    THEN CHOOSE i \in 1..Len(tools) :
            tools[i].name = name /\ \A j \in 1..(i - 1) : tools[j].name # name
    ELSE 0

\* The text a tool's return value becomes (the arms of the match on execute).
result_text(tool, name) ==
    IF tool.returns = "Ok"
    THEN IF tool.success THEN <<tool.output>>
         ELSE <<"Error: ", IF tool.error # <<>> THEN tool.error[1]
                           ELSE tool.output>>
    ELSE <<"Error executing ", name, ": ", tool.error[1]>>

\* result_event reporting every returned call as a success.
result_event_always_success(tool, name) == [tool |-> name, success |-> TRUE]

\* The event the same arms record.
result_event(tool, name) ==
    [tool |-> name,
     success |-> IF tool.returns = "Ok" THEN tool.success ELSE FALSE]

\* The text of a call whose tool is not in the registry.
unknown_text(name) == <<"Unknown tool: ", name>>

\* writeln!(tool_results, "<tool_result name=\"{}\">\n{}\n</tool_result>")
RESULT_OPEN == "<tool_result name=\""
result_block(name, result) ==
    <<RESULT_OPEN, name, "\">", "\n">> \o result
        \o <<"\n", "</tool_result>", "\n">>

ProviderError == [ok |-> FALSE, value |-> <<"provider error">>]
IterationLimit ==
    [ok |-> FALSE, value |-> <<"Agent exceeded maximum tool iterations">>]
NoResult == [ok |-> FALSE, value |-> <<>>]

\* A future being awaited: the provider's chat_with_history, or the execute
\* of the call at position idx.
Awaited(kind, idx) == [kind |-> kind, idx |-> idx]

\* next_iteration with the loop bound off by one (0..=MAX for 0..MAX).
next_iteration_one_more(n) ==
    IF n <= MAX_TOOL_ITERATIONS
    THEN /\ turn_pc' = "provider"
         /\ in_flight' = {Awaited("provider", 0)}
         /\ provider_calls' = provider_calls + 1
         /\ turn_result' = turn_result
    ELSE /\ turn_pc' = "done"
         /\ in_flight' = {}
         /\ provider_calls' = provider_calls
         /\ turn_result' = IterationLimit

\* The head of the for loop: the next iteration calls the provider, and the
\* loop running out bails.
next_iteration(n) ==
    IF n < MAX_TOOL_ITERATIONS
    THEN /\ turn_pc' = "provider"
         /\ in_flight' = {Awaited("provider", 0)}
         /\ provider_calls' = provider_calls + 1
         /\ turn_result' = turn_result
    ELSE /\ turn_pc' = "done"
         /\ in_flight' = {}
         /\ provider_calls' = provider_calls
         /\ turn_result' = IterationLimit

\* agent_turn is entered.
turn_start ==
    /\ turn_pc = "idle"
    /\ iteration' = 0
    /\ next_iteration(0)
    /\ UNCHANGED <<history, silent, response, tool_calls, call_idx,
                   tool_results, events, stdout, done_calls>>

\* provider_ok keeping the extracted text, not the raw response, in history.
provider_ok_text_in_history ==
    /\ turn_pc = "provider"
    /\ \E r \in Responses :
        LET parsed == parse_tool_calls(r) IN
        /\ response' = r
        /\ tool_calls' = parsed.calls
        /\ IF parsed.calls = <<>>
           THEN /\ history' = Append(history,
                                     ChatMessage("assistant", parsed.text))
                /\ turn_result' = [ok |-> TRUE,
                                   value |-> IF parsed.text = <<>> THEN r
                                             ELSE parsed.text]
                /\ turn_pc' = "done"
                /\ UNCHANGED <<stdout, call_idx>>
           ELSE /\ stdout' = IF ~silent /\ parsed.text # <<>>
                             THEN Append(stdout, parsed.text) ELSE stdout
                /\ turn_pc' = "tools"
                /\ call_idx' = 1
                /\ UNCHANGED <<history, turn_result>>
    /\ in_flight' = {}
    /\ tool_results' = <<>>
    /\ UNCHANGED <<silent, iteration, events, done_calls, provider_calls>>

\* provider_ok putting the final answer in the place of the last message.
provider_ok_replaces_last ==
    /\ turn_pc = "provider"
    /\ \E r \in Responses :
        LET parsed == parse_tool_calls(r) IN
        /\ response' = r
        /\ tool_calls' = parsed.calls
        /\ IF parsed.calls = <<>>
           THEN /\ history' = Append(SubSeq(history, 1, Len(history) - 1),
                                     ChatMessage("assistant", r))
                /\ turn_result' = [ok |-> TRUE,
                                   value |-> IF parsed.text = <<>> THEN r
                                             ELSE parsed.text]
                /\ turn_pc' = "done"
                /\ UNCHANGED <<stdout, call_idx>>
           ELSE /\ stdout' = IF ~silent /\ parsed.text # <<>>
                             THEN Append(stdout, parsed.text) ELSE stdout
                /\ turn_pc' = "tools"
                /\ call_idx' = 1
                /\ UNCHANGED <<history, turn_result>>
    /\ in_flight' = {}
    /\ tool_results' = <<>>
    /\ UNCHANGED <<silent, iteration, events, done_calls, provider_calls>>

\* chat_with_history returns Ok(r): the response is parsed; without calls the
\* turn ends, with calls the text is printed and the first call is reached.
provider_ok ==
    /\ turn_pc = "provider"
    /\ \E r \in Responses :
        LET parsed == parse_tool_calls(r) IN
        /\ response' = r
        /\ tool_calls' = parsed.calls
        /\ IF parsed.calls = <<>>
           THEN /\ history' = Append(history, ChatMessage("assistant", r))
                /\ turn_result' = [ok |-> TRUE,
                                   value |-> IF parsed.text = <<>> THEN r
                                             ELSE parsed.text]
                /\ turn_pc' = "done"
                /\ UNCHANGED <<stdout, call_idx>>
           ELSE /\ stdout' = IF ~silent /\ parsed.text # <<>>
                             THEN Append(stdout, parsed.text) ELSE stdout
                /\ turn_pc' = "tools"
                /\ call_idx' = 1
                /\ UNCHANGED <<history, turn_result>>
    /\ in_flight' = {}
    /\ tool_results' = <<>>
    /\ UNCHANGED <<silent, iteration, events, done_calls, provider_calls>>

\* provider_err recording the failure in history.
provider_err_logged ==
    /\ turn_pc = "provider"
    /\ turn_pc' = "done"
    /\ turn_result' = ProviderError
    /\ in_flight' = {}
    /\ history' = Append(history, ChatMessage("assistant", <<"provider error">>))
    /\ UNCHANGED <<silent, iteration, response, tool_calls, call_idx,
                   tool_results, events, stdout, done_calls, provider_calls>>

\* chat_with_history returns Err: the `?` returns it.
provider_err ==
    /\ turn_pc = "provider"
    /\ turn_pc' = "done"
    /\ turn_result' = ProviderError
    /\ in_flight' = {}
    /\ UNCHANGED <<history, silent, iteration, response, tool_calls, call_idx,
                   tool_results, events, stdout, done_calls, provider_calls>>

\* after_call pushing the results message before the assistant message.
after_call_results_first(block) ==
    /\ IF call_idx < Len(tool_calls)
       THEN /\ tool_results' = tool_results \o block
            /\ done_calls' = done_calls \cup {call_idx}
            /\ call_idx' = call_idx + 1
            /\ turn_pc' = "tools"
            /\ in_flight' = {}
            /\ UNCHANGED <<history, iteration, provider_calls, turn_result>>
       ELSE /\ history' = history \o
                <<ChatMessage("user", <<"[Tool results]", "\n">>
                                        \o tool_results \o block),
                  ChatMessage("assistant", response)>>
            /\ tool_results' = <<>>
            /\ done_calls' = {}
            /\ iteration' = iteration + 1
            /\ next_iteration(iteration + 1)
            /\ UNCHANGED call_idx
    /\ UNCHANGED <<silent, response, tool_calls, stdout>>

\* The end of the body of `for call in &tool_calls`: the block is written;
\* after the last call the two messages are pushed and the for loop goes on.
after_call(block) ==
    /\ IF call_idx < Len(tool_calls)
       THEN /\ tool_results' = tool_results \o block
            /\ done_calls' = done_calls \cup {call_idx}
            /\ call_idx' = call_idx + 1
            /\ turn_pc' = "tools"
            /\ in_flight' = {}
            /\ UNCHANGED <<history, iteration, provider_calls, turn_result>>
       ELSE /\ history' = history \o
                <<ChatMessage("assistant", response),
                  ChatMessage("user", <<"[Tool results]", "\n">>
                                        \o tool_results \o block)>>
            /\ tool_results' = <<>>
            /\ done_calls' = {}
            /\ iteration' = iteration + 1
            /\ next_iteration(iteration + 1)
            /\ UNCHANGED call_idx
    /\ UNCHANGED <<silent, response, tool_calls, stdout>>

\* tool_dispatch starting every remaining call at once (a join over the
\* calls instead of the sequential loop).
tool_dispatch_all_at_once ==
    /\ turn_pc = "tools"
    /\ LET call == tool_calls[call_idx] IN
       IF find_tool(Registry, call.name) # 0
       THEN /\ turn_pc' = "tool"
            /\ in_flight' = {Awaited("execute", i) : i \in call_idx..Len(tool_calls)}
            /\ UNCHANGED <<history, silent, iteration, response, tool_calls,
                           call_idx, tool_results, turn_result, events, stdout,
                           done_calls, provider_calls>>
       ELSE /\ after_call(result_block(call.name, unknown_text(call.name)))
            /\ UNCHANGED events

\* The next call is looked up: a tool that is found is executed (awaited), one
\* that is not gives the "Unknown tool" text at once.
tool_dispatch ==
    /\ turn_pc = "tools"
    /\ LET call == tool_calls[call_idx] IN
       IF find_tool(Registry, call.name) # 0
       THEN /\ turn_pc' = "tool"
            /\ in_flight' = {Awaited("execute", call_idx)}
            /\ UNCHANGED <<history, silent, iteration, response, tool_calls,
                           call_idx, tool_results, turn_result, events, stdout,
                           done_calls, provider_calls>>
       ELSE /\ after_call(result_block(call.name, unknown_text(call.name)))
            /\ UNCHANGED events

\* tool_return propagating an Err of execute with `?`.
tool_return_propagates ==
    /\ turn_pc = "tool"
    /\ LET call == tool_calls[call_idx]
           tool == Registry[find_tool(Registry, call.name)]
       IN IF tool.returns = "Err"
          THEN /\ turn_pc' = "done"
               /\ turn_result' = [ok |-> FALSE, value |-> tool.error]
               /\ in_flight' = {}
               /\ UNCHANGED <<history, silent, iteration, response, tool_calls,
                              call_idx, tool_results, events, stdout,
                              done_calls, provider_calls>>
          ELSE /\ events' = Append(events, result_event(tool, call.name))
               /\ after_call(result_block(call.name,
                                          result_text(tool, call.name)))

\* execute returns: the event is recorded and the result text is built.
tool_return ==
    /\ turn_pc = "tool"
    /\ LET call == tool_calls[call_idx]
           tool == Registry[find_tool(Registry, call.name)]
       IN /\ events' = Append(events, result_event(tool, call.name))
          /\ after_call(result_block(call.name, result_text(tool, call.name)))

\* The state agent_turn is called in: the system prompt and the user message,
\* as run and process_message build it.
TurnNew ==
    /\ history = <<ChatMessage("system", <<"prompt">>),
                   ChatMessage("user", <<"hello">>)>>
    /\ silent \in BOOLEAN
    /\ turn_pc = "idle"
    /\ iteration = 0
    /\ response = <<>>
    /\ tool_calls = <<>>
    /\ call_idx = 0
    /\ tool_results = <<>>
    /\ turn_result = NoResult
    /\ events = <<>>
    /\ stdout = <<>>
    /\ in_flight = {}
    /\ done_calls = {}
    /\ provider_calls = 0

TurnIdle == TurnNew /\ silent = TRUE

\* ========================================================= the delegate tool

\* The configured sub-agents (DelegateTool.agents): each target's own
\* max_depth, and whether providers::create_provider knows its provider.
Agents ==
    [researcher |-> [max_depth |-> 2, provider_known |-> TRUE],
     coder |-> [max_depth |-> 1, provider_known |-> TRUE],
     frozen |-> [max_depth |-> 0, provider_known |-> TRUE],
     broken |-> [max_depth |-> 2, provider_known |-> FALSE]]

AgentNames == DOMAIN Agents

\* The concurrent callers of execute on one DelegateTool.
DelegProcs == {"d1", "d2", "d3"}

\* The `args` of execute: "agent" and "prompt" hold a string or are missing
\* (<<>>).
DelegArgs ==
    [agent : {<<>>} \cup {<<a>> : a \in AgentNames \cup {"nobody"}},
     prompt : {<<>>, <<"task">>}]

NoDelegArg == [agent |-> <<>>, prompt |-> <<>>]

\* What execute returns: Err(e), or Ok(ToolResult{success, error}), with the
\* agent the call named ("" when it named none).  An error text is the
\* sequence of its fixed part and the values formatted into it.
DelegErr(p, a, e) ==
    [by |-> p, agent |-> a, returns |-> "Err", success |-> FALSE, error |-> e]
DelegFail(p, a, e) ==
    [by |-> p, agent |-> a, returns |-> "Ok", success |-> FALSE, error |-> e]
DelegDone(p, a) ==
    [by |-> p, agent |-> a, returns |-> "Ok", success |-> TRUE, error |-> <<>>]
NoDelegRet ==
    [by |-> "none", agent |-> "", returns |-> "none", success |-> FALSE,
     error |-> <<>>]

DEPTH_LIMIT == "Delegation depth limit reached"

DelegReturn(p, r) ==
    /\ deleg_pc' = [deleg_pc EXCEPT ![p] = "idle"]
    /\ deleg_arg' = [deleg_arg EXCEPT ![p] = NoDelegArg]
    /\ deleg_ret' = r

\* delegate_check comparing the depth with one limit for all targets.
delegate_check_shared_limit(p) ==
    /\ deleg_pc[p] = "idle"
    /\ deleg_started < MaxDelegations
    /\ deleg_started' = deleg_started + 1
    /\ \E args \in DelegArgs :
        IF args.agent = <<>>
        THEN DelegReturn(p, DelegErr(p, "", <<"Missing 'agent' parameter">>))
        ELSE IF args.prompt = <<>>
        THEN DelegReturn(p, DelegErr(p, args.agent[1],
                                     <<"Missing 'prompt' parameter">>))
        ELSE IF args.agent[1] \notin AgentNames
        THEN DelegReturn(p, DelegFail(p, args.agent[1],
                                      <<"Unknown agent", args.agent[1]>>))
        ELSE LET current == current_depth
                 max == Agents["researcher"].max_depth
             IN IF current >= max
                THEN DelegReturn(p, DelegFail(p, args.agent[1],
                                              <<DEPTH_LIMIT, current, max>>))
                ELSE /\ deleg_pc' = [deleg_pc EXCEPT ![p] = "admitted"]
                     /\ deleg_arg' = [deleg_arg EXCEPT ![p] = args]
                     /\ UNCHANGED deleg_ret
    /\ UNCHANGED <<current_depth, sub_calls>>

\* execute, through the depth check: the arguments are read, the agent is
\* looked up, current_depth is loaded and compared with the agent's
\* max_depth.
delegate_check(p) ==
    /\ deleg_pc[p] = "idle"
    /\ deleg_started < MaxDelegations
    /\ deleg_started' = deleg_started + 1
    /\ \E args \in DelegArgs :
        IF args.agent = <<>>
        THEN DelegReturn(p, DelegErr(p, "", <<"Missing 'agent' parameter">>))
        ELSE IF args.prompt = <<>>
        THEN DelegReturn(p, DelegErr(p, args.agent[1],
                                     <<"Missing 'prompt' parameter">>))
        ELSE IF args.agent[1] \notin AgentNames
        THEN DelegReturn(p, DelegFail(p, args.agent[1],
                                      <<"Unknown agent", args.agent[1]>>))
        ELSE LET current == current_depth
                 max == Agents[args.agent[1]].max_depth
             IN IF current >= max
                THEN DelegReturn(p, DelegFail(p, args.agent[1],
                                              <<DEPTH_LIMIT, current, max>>))
                ELSE /\ deleg_pc' = [deleg_pc EXCEPT ![p] = "admitted"]
                     /\ deleg_arg' = [deleg_arg EXCEPT ![p] = args]
                     /\ UNCHANGED deleg_ret
    /\ UNCHANGED <<current_depth, sub_calls>>

\* delegate_enter raising current_depth before the provider is created.
delegate_enter_counts_first(p) ==
    /\ deleg_pc[p] = "admitted"
    /\ current_depth' = current_depth + 1
    /\ IF ~Agents[deleg_arg[p].agent[1]].provider_known
       THEN /\ DelegReturn(p, DelegFail(p, deleg_arg[p].agent[1],
                                         <<"Failed to create provider",
                                           deleg_arg[p].agent[1]>>))
            /\ UNCHANGED sub_calls
       ELSE /\ sub_calls' = sub_calls + 1
            /\ deleg_pc' = [deleg_pc EXCEPT ![p] = "awaiting"]
            /\ UNCHANGED <<deleg_arg, deleg_ret>>
    /\ UNCHANGED deleg_started

\* execute, after the depth check: the provider is created, current_depth is
\* incremented and the sub-agent's chat_with_system is called.
delegate_enter(p) ==
    /\ deleg_pc[p] = "admitted"
    /\ IF ~Agents[deleg_arg[p].agent[1]].provider_known
       THEN /\ DelegReturn(p, DelegFail(p, deleg_arg[p].agent[1],
                                         <<"Failed to create provider",
                                           deleg_arg[p].agent[1]>>))
            /\ UNCHANGED <<current_depth, sub_calls>>
       ELSE /\ current_depth' = current_depth + 1
            /\ sub_calls' = sub_calls + 1
            /\ deleg_pc' = [deleg_pc EXCEPT ![p] = "awaiting"]
            /\ UNCHANGED <<deleg_arg, deleg_ret>>
    /\ UNCHANGED deleg_started

\* delegate_return returning a provider failure before the decrement (`?`
\* on the awaited result).
delegate_return_leaks_on_err(p) ==
    /\ deleg_pc[p] = "awaiting"
    /\ \E result \in {"Ok", "Err"} :
        IF result = "Ok"
        THEN /\ current_depth' = current_depth - 1
             /\ DelegReturn(p, DelegDone(p, deleg_arg[p].agent[1]))
        ELSE /\ current_depth' = current_depth
             /\ DelegReturn(p, DelegErr(p, deleg_arg[p].agent[1],
                                        <<"Agent failed", deleg_arg[p].agent[1]>>))
    /\ UNCHANGED <<deleg_started, sub_calls>>

\* chat_with_system returns, Ok or Err: current_depth is decremented and the
\* result is built.
delegate_return(p) ==
    /\ deleg_pc[p] = "awaiting"
    /\ current_depth' = current_depth - 1
    /\ \E result \in {"Ok", "Err"} :
        IF result = "Ok"
        THEN DelegReturn(p, DelegDone(p, deleg_arg[p].agent[1]))
        ELSE DelegReturn(p, DelegFail(p, deleg_arg[p].agent[1],
                                      <<"Agent failed", deleg_arg[p].agent[1]>>))
    /\ UNCHANGED <<deleg_started, sub_calls>>

\* DelegateTool::new
DelegNew ==
    /\ current_depth = 0
    /\ deleg_pc = [p \in DelegProcs |-> "idle"]
    /\ deleg_arg = [p \in DelegProcs |-> NoDelegArg]
    /\ deleg_ret = NoDelegRet
    /\ deleg_started = 0
    /\ sub_calls = 0

DelegIdle == DelegNew

\* ============================================================== the gateway

\* The connections served by handle_ws, all on one SessionManager.
Conns == {"w1", "w2"}

\* A session id no create_session call ever returns (a client's own string).
Bogus == 0

SYSTEM_PROMPT == ChatMessage("system", <<"prompt">>)

\* ServerMessage
SrvMessage(content, session_id) ==
    [type |-> "message", content |-> content, session_id |-> session_id]
SrvSessionCreated(session_id) ==
    [type |-> "session_created", content |-> <<>>, session_id |-> session_id]
SrvTyping == [type |-> "typing", content |-> <<>>, session_id |-> Bogus]
SrvError(content) ==
    [type |-> "error", content |-> content, session_id |-> Bogus]

\* The error strings of the store and of the handler.
ErrCapacity == <<"Maximum sessions reached">>
ErrNotFound(id) == <<"Session not found", ToString(id)>>
ErrReplaced(id) == <<"Session not found. Created new session.", ToString(id)>>
ErrInvalid == <<"Invalid message format">>
ErrProvider == <<"Provider error">>

\* A handler's locals: the Chat's content and session_id, the id
\* create_session returned, the history fetched, the provider's response.
NoCur == [content |-> <<>>, session_id |-> Bogus, new_id |-> Bogus,
          history |-> <<>>, response |-> <<>>]

\* SessionManager methods as the handler calls them: each takes the lock,
\* runs to its end without awaiting and drops the lock.
store_full == Cardinality(DOMAIN sessions) >= max_sessions
sessions_created(id) ==
    [i \in DOMAIN sessions \cup {id} |->
        IF i = id THEN Session_new(id) ELSE sessions[i]]
sessions_added(id, message) ==
    IF id \in DOMAIN sessions
    THEN [sessions EXCEPT ![id].last_activity = now,
                          ![id].history = Session_trim_history(Append(@, message))]
    ELSE sessions
sessions_read(id) ==
    IF id \in DOMAIN sessions
    THEN [sessions EXCEPT ![id].last_activity = now]
    ELSE sessions

Send(c, messages) == outbox' = [outbox EXCEPT ![c] = @ \o messages]
Goto(c, position) == gw_pc' = [gw_pc EXCEPT ![c] = position]
Continue(c) ==
    /\ gw_pc' = [gw_pc EXCEPT ![c] = "recv"]
    /\ gw_cur' = [gw_cur EXCEPT ![c] = NoCur]

Receives(c) == gw_pc[c] = "recv" /\ gw_frames < MaxFrames /\ lock_free

\* A Close frame arrives, or the stream ends: the loop is left.
gw_close(c) ==
    /\ Receives(c)
    /\ gw_frames' = gw_frames + 1
    /\ Goto(c, "closed")
    /\ UNCHANGED <<gw_cur, outbox, gw_calls, sessions, next_uuid>>

\* A text frame that is no ClientMessage arrives.
gw_invalid(c) ==
    /\ Receives(c)
    /\ gw_frames' = gw_frames + 1
    /\ Send(c, <<SrvError(ErrInvalid)>>)
    /\ UNCHANGED <<gw_pc, gw_cur, gw_calls, sessions, next_uuid>>

\* NewSession arrives: create_session is called.
gw_new_session(c) ==
    /\ Receives(c)
    /\ gw_frames' = gw_frames + 1
    /\ IF store_full
       THEN /\ Send(c, <<SrvError(ErrCapacity)>>)
            /\ UNCHANGED <<gw_pc, gw_cur, sessions, next_uuid>>
       ELSE /\ next_uuid < MaxIds
            /\ next_uuid' = next_uuid + 1
            /\ sessions' = sessions_created(next_uuid + 1)
            /\ Goto(c, "ns_seed")
            /\ gw_cur' = [gw_cur EXCEPT ![c] = [NoCur EXCEPT !.new_id = next_uuid + 1]]
            /\ UNCHANGED outbox
    /\ UNCHANGED gw_calls

\* NewSession, after create_session: the system prompt is added and
\* SessionCreated is sent.
gw_ns_seed(c) ==
    /\ gw_pc[c] = "ns_seed" /\ lock_free
    /\ sessions' = sessions_added(gw_cur[c].new_id, SYSTEM_PROMPT)
    /\ Send(c, <<SrvSessionCreated(gw_cur[c].new_id)>>)
    /\ Continue(c)
    /\ UNCHANGED <<gw_frames, gw_calls, next_uuid>>

\* Message{content, session_id} arrives, with an id some create_session call
\* returned or a string of the client's own: session_exists is called.
gw_chat(c) ==
    /\ Receives(c)
    /\ gw_frames' = gw_frames + 1
    /\ \E id \in (1..next_uuid) \cup {Bogus} :
        /\ gw_cur' = [gw_cur EXCEPT ![c] =
                [NoCur EXCEPT !.content = <<"chat", ToString(gw_frames + 1)>>,
                              !.session_id = id]]
        /\ IF id \in DOMAIN sessions
           THEN Goto(c, "chat_add_user")
           ELSE Goto(c, "chat_create")
    /\ UNCHANGED <<outbox, gw_calls, sessions, next_uuid>>

\* gw_chat_create, were the requested id honoured.
gw_chat_create_honours_id(c) ==
    /\ gw_pc[c] = "chat_create" /\ lock_free
    /\ IF store_full
       THEN /\ Send(c, <<SrvError(ErrCapacity)>>)
            /\ Continue(c)
            /\ UNCHANGED <<sessions, next_uuid>>
       ELSE /\ sessions' = sessions_created(gw_cur[c].session_id)
            /\ gw_cur' = [gw_cur EXCEPT ![c].new_id = gw_cur[c].session_id]
            /\ Goto(c, "chat_seed")
            /\ UNCHANGED <<outbox, next_uuid>>
    /\ UNCHANGED <<gw_frames, gw_calls>>

\* The session does not exist: create_session is called.
gw_chat_create(c) ==
    /\ gw_pc[c] = "chat_create" /\ lock_free
    /\ IF store_full
       THEN /\ Send(c, <<SrvError(ErrCapacity)>>)
            /\ Continue(c)
            /\ UNCHANGED <<sessions, next_uuid>>
       ELSE /\ next_uuid < MaxIds
            /\ next_uuid' = next_uuid + 1
            /\ sessions' = sessions_created(next_uuid + 1)
            /\ gw_cur' = [gw_cur EXCEPT ![c].new_id = next_uuid + 1]
            /\ IF next_uuid + 1 # gw_cur[c].session_id
               THEN Goto(c, "chat_seed")
               ELSE Goto(c, "chat_add_user")
            /\ UNCHANGED outbox
    /\ UNCHANGED <<gw_frames, gw_calls>>

\* gw_chat_seed, were the message then handled in the replacement session.
gw_chat_seed_then_process(c) ==
    /\ gw_pc[c] = "chat_seed" /\ lock_free
    /\ sessions' = sessions_added(gw_cur[c].new_id, SYSTEM_PROMPT)
    /\ Send(c, <<SrvError(ErrReplaced(gw_cur[c].session_id)),
                 SrvSessionCreated(gw_cur[c].new_id)>>)
    /\ gw_cur' = [gw_cur EXCEPT ![c].session_id = gw_cur[c].new_id]
    /\ Goto(c, "chat_add_user")
    /\ UNCHANGED <<gw_frames, gw_calls, next_uuid>>

\* The replacement session gets the system prompt; Error and SessionCreated
\* are sent and the message is dropped.
gw_chat_seed(c) ==
    /\ gw_pc[c] = "chat_seed" /\ lock_free
    /\ sessions' = sessions_added(gw_cur[c].new_id, SYSTEM_PROMPT)
    /\ Send(c, <<SrvError(ErrReplaced(gw_cur[c].session_id)),
                 SrvSessionCreated(gw_cur[c].new_id)>>)
    /\ Continue(c)
    /\ UNCHANGED <<gw_frames, gw_calls, next_uuid>>

\* gw_chat_add_user, were Typing not sent.
gw_chat_add_user_no_typing(c) ==
    /\ gw_pc[c] = "chat_add_user" /\ lock_free
    /\ LET id == gw_cur[c].session_id IN
       IF id \in DOMAIN sessions
       THEN /\ sessions' = sessions_added(id, ChatMessage("user", gw_cur[c].content))
            /\ Goto(c, "chat_history")
            /\ UNCHANGED <<gw_cur, outbox>>
       ELSE /\ Send(c, <<SrvError(ErrNotFound(id))>>)
            /\ Continue(c)
            /\ UNCHANGED sessions
    /\ UNCHANGED <<gw_frames, gw_calls, next_uuid>>

\* The user message is added; Typing is sent.
gw_chat_add_user(c) ==
    /\ gw_pc[c] = "chat_add_user" /\ lock_free
    /\ LET id == gw_cur[c].session_id IN
       IF id \in DOMAIN sessions
       THEN /\ sessions' = sessions_added(id, ChatMessage("user", gw_cur[c].content))
            /\ Send(c, <<SrvTyping>>)
            /\ Goto(c, "chat_history")
            /\ UNCHANGED gw_cur
       ELSE /\ Send(c, <<SrvError(ErrNotFound(id))>>)
            /\ Continue(c)
            /\ UNCHANGED sessions
    /\ UNCHANGED <<gw_frames, gw_calls, next_uuid>>

\* gw_chat_history, were the store's error not reported.
gw_chat_history_silent(c) ==
    /\ gw_pc[c] = "chat_history" /\ lock_free
    /\ LET id == gw_cur[c].session_id IN
       IF id \in DOMAIN sessions
       THEN /\ sessions' = sessions_read(id)
            /\ gw_cur' = [gw_cur EXCEPT ![c].history = sessions[id].history]
            /\ gw_calls' = Append(gw_calls,
                    [conn |-> c, content |-> gw_cur[c].content,
                     history |-> sessions[id].history])
            /\ Goto(c, "chat_provider")
            /\ UNCHANGED outbox
       ELSE /\ Continue(c)
            /\ UNCHANGED <<sessions, gw_calls, outbox>>
    /\ UNCHANGED <<gw_frames, next_uuid>>

\* get_history is called and the provider's chat_with_history is called with
\* what it returned.
gw_chat_history(c) ==
    /\ gw_pc[c] = "chat_history" /\ lock_free
    /\ LET id == gw_cur[c].session_id IN
       IF id \in DOMAIN sessions
       THEN /\ sessions' = sessions_read(id)
            /\ gw_cur' = [gw_cur EXCEPT ![c].history = sessions[id].history]
            /\ gw_calls' = Append(gw_calls,
                    [conn |-> c, content |-> gw_cur[c].content,
                     history |-> sessions[id].history])
            /\ Goto(c, "chat_provider")
            /\ UNCHANGED outbox
       ELSE /\ Send(c, <<SrvError(ErrNotFound(id))>>)
            /\ Continue(c)
            /\ UNCHANGED <<sessions, gw_calls>>
    /\ UNCHANGED <<gw_frames, next_uuid>>

\* The texts the provider may answer a Chat with: a final answer, or a
\* request for a tool call.
GwResponses(content) ==
    { <<"reply to">> \o content,
      <<"checking", OPEN, J_SHELL, CLOSE>> \o content }

\* chat_with_history returns Ok(response).
gw_provider_ok(c) ==
    /\ gw_pc[c] = "chat_provider"
    /\ \E r \in GwResponses(gw_cur[c].content) :
            gw_cur' = [gw_cur EXCEPT ![c].response = r]
    /\ Goto(c, "chat_add_assistant")
    /\ UNCHANGED <<outbox, gw_frames, gw_calls, sessions, next_uuid>>

\* gw_provider_err, were a provider failure to end the handler.
gw_provider_err_fatal(c) ==
    /\ gw_pc[c] = "chat_provider"
    /\ Send(c, <<SrvError(ErrProvider)>>)
    /\ Goto(c, "closed")
    /\ UNCHANGED <<gw_cur, gw_frames, gw_calls, sessions, next_uuid>>

\* gw_provider_err, were the user message of the failed Chat taken back.
gw_provider_err_rollback(c) ==
    /\ gw_pc[c] = "chat_provider" /\ lock_free
    /\ Send(c, <<SrvError(ErrProvider)>>)
    /\ Continue(c)
    /\ LET id == gw_cur[c].session_id IN
       sessions' =
          IF id \in DOMAIN sessions /\ sessions[id].history # <<>>
          THEN [sessions EXCEPT ![id].history =
                    SubSeq(@, 1, Len(@) - 1)]
          ELSE sessions
    /\ UNCHANGED <<gw_frames, gw_calls, next_uuid>>

\* chat_with_history returns Err: Error is sent.
gw_provider_err(c) ==
    /\ gw_pc[c] = "chat_provider"
    /\ Send(c, <<SrvError(ErrProvider)>>)
    /\ Continue(c)
    /\ UNCHANGED <<gw_frames, gw_calls, sessions, next_uuid>>

\* The assistant message is added, its result ignored; Message is sent.
gw_chat_add_assistant(c) ==
    /\ gw_pc[c] = "chat_add_assistant" /\ lock_free
    /\ sessions' = sessions_added(gw_cur[c].session_id,
                                  ChatMessage("assistant", gw_cur[c].response))
    /\ Send(c, <<SrvMessage(gw_cur[c].response, gw_cur[c].session_id)>>)
    /\ Continue(c)
    /\ UNCHANGED <<gw_frames, gw_calls, next_uuid>>

\* The cleanup task of run_web: cleanup_expired on the shared store.
gw_sweep ==
    /\ lock_free
    /\ sessions' = [i \in {j \in DOMAIN sessions :
                             as_secs(now - sessions[j].last_activity) < timeout_secs}
                    |-> sessions[i]]
    /\ sessions' # sessions
    /\ UNCHANGED <<next_uuid, gw_vars>>

\* handle_ws is entered on each connection.
GwNew ==
    /\ gw_pc = [c \in Conns |-> "recv"]
    /\ gw_cur = [c \in Conns |-> NoCur]
    /\ outbox = [c \in Conns |-> <<>>]
    /\ gw_frames = 0
    /\ gw_calls = <<>>

GwIdle == GwNew

\* ============================================ trim_history and the run loop

\* Vec::drain(a..b): the elements at 0-based positions a..b-1 are removed.
drain(h, a, b) == SubSeq(h, 1, a) \o SubSeq(h, b + 1, Len(h))

\* trim_history, were the head never exempt.
trim_history_from_head(h) ==
    IF Len(h) <= MAX_HISTORY_MESSAGES THEN h
    ELSE drain(h, 0, Len(h) - MAX_HISTORY_MESSAGES)

\* trim_history of loop_.rs
trim_history(h) ==
    LET has_system == Len(h) > 0 /\ h[1].role = "system"
        non_system == IF has_system THEN Len(h) - 1 ELSE Len(h)
    IN  IF non_system <= MAX_HISTORY_MESSAGES THEN h
        ELSE LET start == IF has_system THEN 1 ELSE 0
                 to_remove == non_system - MAX_HISTORY_MESSAGES
             IN  drain(h, start, start + to_remove)

\* The histories handed to a trim: a head that is a system message, a user
\* message or missing, then n numbered messages, all of the user or of
\* alternating roles, the k-th of them a system message when k > 0.
TrimInput(head, n, k, alternate) ==
    (IF head = "none" THEN <<>> ELSE <<ChatMessage(head, <<"head">>)>>)
    \o [i \in 1..n |->
            ChatMessage(IF i = k THEN "system"
                        ELSE IF alternate /\ i % 2 = 0 THEN "assistant" ELSE "user",
                        <<"msg", ToString(i)>>)]
TrimInputs(slack) ==
    {TrimInput(head, n, k, alternate) :
        head \in {"system", "user", "none"},
        n \in 0..(MAX_HISTORY_MESSAGES + slack),
        k \in {0, 1, 2, MAX_HISTORY_MESSAGES},
        alternate \in BOOLEAN}

\* trim_history(&mut history) is called.
apply_trim_history ==
    /\ trim_n < MaxTrims
    /\ trim_n' = trim_n + 1
    /\ trim_prev' = trim_h
    /\ trim_h' = trim_history(trim_h)
    /\ trim_by' = "loop"
    /\ UNCHANGED <<loop_history, loop_turns>>

\* Session::trim_history(&mut self) is called, on a history a few messages
\* beyond the limit (add_message calls it after every push).
apply_session_trim ==
    /\ trim_n < MaxTrims
    /\ Len(trim_h) <= MAX_HISTORY_MESSAGES + SessionSlack
    /\ trim_n' = trim_n + 1
    /\ trim_prev' = trim_h
    /\ trim_h' = Session_trim_history(trim_h)
    /\ trim_by' = "session"
    /\ UNCHANGED <<loop_history, loop_turns>>

\* What agent_turn leaves pushed on history after `pairs` iterations with
\* tool calls: each the assistant's response and the user message of results.
turn_pairs(turn, pairs) ==
    [i \in 1..(2 * pairs) |->
        ChatMessage(IF i % 2 = 1 THEN "assistant" ELSE "user",
                    <<"turn", ToString(turn), ToString(i)>>)]

\* The history of run's loop when a message arrives.
received(turn) ==
    Append(loop_history, ChatMessage("user", <<"input", ToString(turn)>>))

\* One pass of run's loop: the message is pushed, agent_turn answers on its
\* k-th provider call, trim_history is called.
loop_turn_ok(k) ==
    /\ loop_turns < MaxTurns
    /\ loop_turns' = loop_turns + 1
    /\ loop_history' = trim_history(
            Append(received(loop_turns + 1) \o turn_pairs(loop_turns + 1, k - 1),
                   ChatMessage("assistant", <<"answer", ToString(loop_turns + 1)>>)))
    /\ UNCHANGED <<trim_h, trim_prev, trim_by, trim_n>>

\* One pass of run's loop: the message is pushed, agent_turn fails on its k-th
\* provider call, the error is printed and the loop continues.
loop_turn_err(k) ==
    /\ loop_turns < MaxTurns
    /\ loop_turns' = loop_turns + 1
    /\ loop_history' = received(loop_turns + 1) \o turn_pairs(loop_turns + 1, k - 1)
    /\ UNCHANGED <<trim_h, trim_prev, trim_by, trim_n>>

\* One pass of run's loop: the message is pushed, agent_turn runs into the
\* iteration limit, the error is printed and the loop continues.
loop_turn_limit ==
    /\ loop_turns < MaxTurns
    /\ loop_turns' = loop_turns + 1
    /\ loop_history' = received(loop_turns + 1)
                        \o turn_pairs(loop_turns + 1, MAX_TOOL_ITERATIONS)
    /\ UNCHANGED <<trim_h, trim_prev, trim_by, trim_n>>

\* run's history some passes into the loop: the system prompt, then n
\* messages kept by the trims so far, the last one an assistant's answer.
LoopSeed(n) ==
    <<SYSTEM_PROMPT>>
    \o [i \in 1..n |->
            ChatMessage(IF (n - i) % 2 = 0 THEN "assistant" ELSE "user",
                        <<"seed", ToString(i)>>)]

TrimNew ==
    /\ trim_h \in TrimInputs(TrimSlack)
    /\ trim_prev = trim_h
    /\ trim_by = "none"
    /\ trim_n = 0

TrimIdle == trim_h = <<>> /\ trim_prev = <<>> /\ trim_by = "none" /\ trim_n = 0

LoopNew ==
    /\ \E n \in 0..MAX_HISTORY_MESSAGES : loop_history = LoopSeed(n)
    /\ loop_turns = 0

LoopIdle == loop_history = <<>> /\ loop_turns = 0

RunIdle == TrimIdle /\ LoopIdle

\* =============================================================== check_auth

\* Header and token texts are sequences of these pieces: the scheme with its
\* blank, the scheme in lower case, token characters, and a byte that is not
\* visible ASCII (HeaderValue::to_str fails on it).
BEARER == "Bearer "
NON_ASCII == "\\xff"
TokenChars == {"a", "b"}
HeaderPieces == {BEARER, "bearer "} \cup TokenChars \cup {NON_ASCII}

SeqsUpTo(S, n) == UNION {[1..k -> S] : k \in 0..n}

\* HeaderValue::to_str: Ok unless a byte is not visible ASCII.
to_str_ok(val) == \A i \in 1..Len(val) : val[i] # NON_ASCII

\* str::strip_prefix: <<rest>> when val starts with prefix, <<>> for None.
strip_prefix(val, prefix) ==
    IF Len(val) >= Len(prefix) /\ SubSeq(val, 1, Len(prefix)) = prefix
    THEN <<SubSeq(val, Len(prefix) + 1, Len(val))>>
    ELSE <<>>

\* check_auth, were the scheme prefix not required.
check_auth_any_scheme(token, hdrs, qry) ==
    \/ token = <<>>
    \/ /\ hdrs # <<>>
       /\ to_str_ok(hdrs[1])
       /\ \/ hdrs[1] = token
          \/ strip_prefix(hdrs[1], <<BEARER>>) = <<token>>
    \/ qry # <<>> /\ qry[1] = token

\* check_auth
check_auth(token, hdrs, qry) ==
    IF token = <<>> THEN TRUE
    ELSE IF /\ hdrs # <<>>
            /\ to_str_ok(hdrs[1])
            /\ strip_prefix(hdrs[1], <<BEARER>>) # <<>>
            /\ strip_prefix(hdrs[1], <<BEARER>>)[1] = token
         THEN TRUE
    ELSE IF qry # <<>> /\ qry[1] = token
         THEN TRUE
    ELSE FALSE

\* A request arrives at a server configured with a token.
AuthNew ==
    /\ token_config \in SeqsUpTo(TokenChars, MaxTokenLen)
    /\ headers \in {<<>>} \cup {<<v>> : v \in SeqsUpTo(HeaderPieces, MaxHeaderLen)}
    /\ query \in {<<>>} \cup {<<v>> : v \in SeqsUpTo(TokenChars, MaxTokenLen)}
    /\ authorized = <<>>

AuthIdle ==
    token_config = <<>> /\ headers = <<>> /\ query = <<>> /\ authorized = <<>>

\* check_auth is called on the request.
auth_check ==
    /\ authorized = <<>>
    /\ authorized' = <<check_auth(token_config, headers, query)>>
    /\ UNCHANGED <<token_config, headers, query>>

\* ======================================================== the specifications

\* The pieces the texts given to parse_tool_calls are made of: single tokens
\* (words, blanks, lone markers, a JSON text outside markers) and whole
\* marker pairs around well-formed and malformed content.
Segments ==
    { <<"a">>, <<"b">>, <<" ">>, <<OPEN>>, <<CLOSE>>, <<J_SHELL>>,
      <<OPEN, J_SHELL, CLOSE>>,
      <<OPEN, "\n", J_FAIL, "\n", CLOSE>>,
      <<OPEN, J_NOARGS, CLOSE>>,
      <<OPEN, J_NONAME, CLOSE>>,
      <<OPEN, J_NUMNAME, CLOSE>>,
      <<OPEN, J_ARRAY, CLOSE>>,
      <<OPEN, "junk", CLOSE>> }

RECURSIVE flatten(_)
flatten(ss) == IF Len(ss) = 0 THEN <<>> ELSE ss[1] \o flatten(Tail(ss))

\* The texts made of at most n pieces.
TextsUpTo(n) == {flatten(ss) : ss \in UNION {[1..k -> Segments] : k \in 0..n}}

ParseNew == parse_input \in TextsUpTo(MaxSegments) /\ parse_output = <<>>

\* parse_tool_calls is called on the text.
parse ==
    /\ parse_output = <<>>
    /\ parse_output' = <<parse_tool_calls(parse_input)>>
    /\ UNCHANGED parse_input

\* parse_tool_calls on its own.
ParseInit == ParseNew /\ StoreIdle /\ TurnIdle /\ DelegIdle /\ GwIdle /\ RunIdle /\ AuthIdle
ParseNext == parse /\ UNCHANGED not_parse_vars
SpecParse == ParseInit /\ [][ParseNext]_vars

ParseIdle == parse_input = <<>> /\ parse_output = <<>>

\* The session store alone, from its construction.
StoreInit == StoreNew /\ ParseIdle /\ TurnIdle /\ DelegIdle /\ GwIdle /\ RunIdle /\ AuthIdle
StoreNext ==
    \/ (\E p \in Procs : create_session_check(p)) /\ UNCHANGED not_store_vars
    \/ (\E p \in Procs : create_session_insert(p)) /\ UNCHANGED not_store_vars
    \/ (\E p \in Procs : get_history(p)) /\ UNCHANGED not_store_vars
    \/ (\E p \in Procs : add_message_push(p)) /\ UNCHANGED not_store_vars
    \/ (\E p \in Procs : add_message_trim(p)) /\ UNCHANGED not_store_vars
    \/ (\E p \in Procs : list_sessions(p)) /\ UNCHANGED not_store_vars
    \/ (\E p \in Procs : cleanup_expired(p)) /\ UNCHANGED not_store_vars
    \/ (\E p \in Procs : session_exists(p)) /\ UNCHANGED not_store_vars
    \/ (\E p \in Procs : session_count(p)) /\ UNCHANGED not_store_vars
    \/ Tick /\ UNCHANGED not_store_vars
SpecStore == StoreInit /\ [][StoreNext]_vars

\* The handler's provider call, were the guard of the store's mutex kept
\* across it.
chat_with_history_call_holding(p) ==
    /\ pc[p] = "idle" /\ lock_free
    /\ pc' = [pc EXCEPT ![p] = "chat_provider"]
    /\ lock' = p
    /\ UNCHANGED <<sessions, max_sessions, timeout_secs, now, next_uuid,
                   arg, ret, store_calls>>

\* A handler, between two calls on the store, calls the provider's
\* chat_with_history and awaits it.
chat_with_history_call(p) ==
    /\ pc[p] = "idle"
    /\ pc' = [pc EXCEPT ![p] = "chat_provider"]
    /\ UNCHANGED <<sessions, lock, max_sessions, timeout_secs, now, next_uuid,
                   arg, ret, store_calls>>

\* chat_with_history returns, Ok or Err.
chat_with_history_return(p) ==
    /\ pc[p] = "chat_provider"
    /\ pc' = [pc EXCEPT ![p] = "idle"]
    /\ UNCHANGED <<sessions, lock, max_sessions, timeout_secs, now, next_uuid,
                   arg, ret, store_calls>>

\* The handlers' calls on the store interleaved with their provider calls.
\* A store method that has the lock runs to its end without awaiting; no
\* provider call is bound to return.
ChatStoreNext ==
    \/ (\E p \in Procs : create_session_check(p)) /\ UNCHANGED not_store_vars
    \/ (\E p \in Procs : create_session_insert(p)) /\ UNCHANGED not_store_vars
    \/ (\E p \in Procs : get_history(p)) /\ UNCHANGED not_store_vars
    \/ (\E p \in Procs : add_message_push(p)) /\ UNCHANGED not_store_vars
    \/ (\E p \in Procs : add_message_trim(p)) /\ UNCHANGED not_store_vars
    \/ (\E p \in Procs : list_sessions(p)) /\ UNCHANGED not_store_vars
    \/ (\E p \in Procs : cleanup_expired(p)) /\ UNCHANGED not_store_vars
    \/ (\E p \in Procs : chat_with_history_call(p)) /\ UNCHANGED not_store_vars
    \/ (\E p \in Procs : chat_with_history_return(p)) /\ UNCHANGED not_store_vars
SpecChatStore ==
    /\ StoreInit
    /\ [][ChatStoreNext]_vars
    /\ \A p \in Procs :
          /\ WF_vars(create_session_insert(p) /\ UNCHANGED not_store_vars)
          /\ WF_vars(add_message_trim(p) /\ UNCHANGED not_store_vars)

\* The session store with a long-lived session.
StoreLongInit == StoreLong /\ ParseIdle /\ TurnIdle /\ DelegIdle /\ GwIdle /\ RunIdle /\ AuthIdle
SpecStoreLong == StoreLongInit /\ [][StoreNext]_vars

\* One agent turn.
TurnInit == TurnNew /\ StoreIdle /\ ParseIdle /\ DelegIdle /\ GwIdle /\ RunIdle /\ AuthIdle
TurnNext ==
    \/ turn_start /\ UNCHANGED not_turn_vars
    \/ provider_ok /\ UNCHANGED not_turn_vars
    \/ provider_err /\ UNCHANGED not_turn_vars
    \/ tool_dispatch /\ UNCHANGED not_turn_vars
    \/ tool_return /\ UNCHANGED not_turn_vars
SpecTurn == TurnInit /\ [][TurnNext]_vars

\* One agent turn whose provider and tools return: every await completes, so
\* the turn takes its next step whenever it has one.
SpecTurnLive == SpecTurn /\ WF_vars(TurnNext)

\* The delegate tool alone, called by concurrent callers.
DelegInit == DelegNew /\ StoreIdle /\ ParseIdle /\ TurnIdle /\ GwIdle /\ RunIdle /\ AuthIdle
DelegNext ==
    \/ (\E p \in DelegProcs : delegate_check(p)) /\ UNCHANGED not_deleg_vars
    \/ (\E p \in DelegProcs : delegate_enter(p)) /\ UNCHANGED not_deleg_vars
    \/ (\E p \in DelegProcs : delegate_return(p)) /\ UNCHANGED not_deleg_vars
SpecDeleg == DelegInit /\ [][DelegNext]_vars

\* The delegate tool within one agent turn: agent_turn awaits each execute
\* before it runs the next tool call, and the sub-agent is asked by one
\* chat_with_system call, so execute has one caller at a time.
TurnCaller == "d1"
DelegTurnNext ==
    \/ delegate_check(TurnCaller) /\ UNCHANGED not_deleg_vars
    \/ delegate_enter(TurnCaller) /\ UNCHANGED not_deleg_vars
    \/ delegate_return(TurnCaller) /\ UNCHANGED not_deleg_vars
SpecDelegTurn == DelegInit /\ [][DelegTurnNext]_vars

\* The gateway: the connections' handlers and the cleanup task on one store,
\* within one tick of the clock: a sweep evicts every session when
\* timeout_secs is 0 and none otherwise, so the store is configured with the
\* least and the greatest capacity and timeout.
GwStore ==
    /\ StoreNew
    /\ max_sessions \in {1, MaxMaxSessions}
    /\ timeout_secs \in {0, MaxTimeoutSecs}
GwInit == GwNew /\ GwStore /\ ParseIdle /\ TurnIdle /\ DelegIdle /\ RunIdle /\ AuthIdle
GwStoreFrame == UNCHANGED <<lock, max_sessions, timeout_secs, now, pc, arg, ret,
                            store_calls, not_gw_vars>>
GwNext ==
    \/ (\E c \in Conns : gw_close(c)) /\ GwStoreFrame
    \/ (\E c \in Conns : gw_invalid(c)) /\ GwStoreFrame
    \/ (\E c \in Conns : gw_new_session(c)) /\ GwStoreFrame
    \/ (\E c \in Conns : gw_ns_seed(c)) /\ GwStoreFrame
    \/ (\E c \in Conns : gw_chat(c)) /\ GwStoreFrame
    \/ (\E c \in Conns : gw_chat_create(c)) /\ GwStoreFrame
    \/ (\E c \in Conns : gw_chat_seed(c)) /\ GwStoreFrame
    \/ (\E c \in Conns : gw_chat_add_user(c)) /\ GwStoreFrame
    \/ (\E c \in Conns : gw_chat_history(c)) /\ GwStoreFrame
    \/ (\E c \in Conns : gw_provider_ok(c)) /\ GwStoreFrame
    \/ (\E c \in Conns : gw_provider_err(c)) /\ GwStoreFrame
    \/ (\E c \in Conns : gw_chat_add_assistant(c)) /\ GwStoreFrame
    \/ gw_sweep /\ GwStoreFrame
SpecGw == GwInit /\ [][GwNext]_vars

\* Handler c goes on with the frame it has received: a store call is granted
\* the lock, or the provider call returns.
GwProceeds(c) ==
    /\ \/ gw_ns_seed(c)
       \/ gw_chat_create(c)
       \/ gw_chat_seed(c)
       \/ gw_chat_add_user(c)
       \/ gw_chat_history(c)
       \/ gw_provider_ok(c)
       \/ gw_provider_err(c)
       \/ gw_chat_add_assistant(c)
    /\ GwStoreFrame

\* The gateway serving one connection after the other has ended, with the
\* cleanup task, when every provider call returns and the store lock is
\* granted fairly: a handler that has a frame to go on with does go on.
GwLiveNew ==
    /\ gw_pc = [c \in Conns |-> IF c = "w1" THEN "recv" ELSE "closed"]
    /\ gw_cur = [c \in Conns |-> NoCur]
    /\ outbox = [c \in Conns |-> <<>>]
    /\ gw_frames = 0
    /\ gw_calls = <<>>
GwLiveInit ==
    GwLiveNew /\ GwStore /\ ParseIdle /\ TurnIdle /\ DelegIdle /\ RunIdle /\ AuthIdle
SpecGwLive ==
    /\ GwLiveInit
    /\ [][GwNext]_vars
    /\ \A c \in Conns : WF_vars(GwProceeds(c))

\* The two trims applied to histories around the limit.
TrimInit == TrimNew /\ LoopIdle /\ AuthIdle /\ StoreIdle /\ ParseIdle /\ TurnIdle
            /\ DelegIdle /\ GwIdle
TrimNext ==
    \/ apply_trim_history /\ UNCHANGED not_run_vars
    \/ apply_session_trim /\ UNCHANGED not_run_vars
SpecTrim == TrimInit /\ [][TrimNext]_vars

\* The interactive loop of run.
LoopInit == LoopNew /\ TrimIdle /\ AuthIdle /\ StoreIdle /\ ParseIdle /\ TurnIdle
            /\ DelegIdle /\ GwIdle
LoopNext ==
    \/ (\E k \in 1..MAX_TOOL_ITERATIONS : loop_turn_ok(k)) /\ UNCHANGED not_run_vars
    \/ (\E k \in 1..MAX_TOOL_ITERATIONS : loop_turn_err(k)) /\ UNCHANGED not_run_vars
    \/ loop_turn_limit /\ UNCHANGED not_run_vars
SpecLoop == LoopInit /\ [][LoopNext]_vars

\* check_auth on every request and token within the bounds.
AuthInit == AuthNew /\ RunIdle /\ StoreIdle /\ ParseIdle /\ TurnIdle /\ DelegIdle
            /\ GwIdle
AuthNext == auth_check /\ UNCHANGED not_auth_vars
SpecAuth == AuthInit /\ [][AuthNext]_vars

\* ------------------------------------------------------------------- C1
\* The steps of a create_session call, told by the caller's position.
CreateRefused == store_calls' = store_calls + 1 /\ pc' = pc /\ ret'.op = "create_session"
CreateAdmitted == \E p \in Procs : pc[p] = "idle" /\ pc'[p] = "create_insert"
CreateInserted == \E p \in Procs : pc[p] = "create_insert" /\ pc'[p] = "idle"

C1_CreateStep ==
    /\ CreateRefused =>
          /\ ~ret'.ok
          /\ Cardinality(DOMAIN sessions) = max_sessions
          /\ sessions' = sessions
    /\ CreateAdmitted => Cardinality(DOMAIN sessions) < max_sessions
    /\ CreateInserted =>
          /\ ret'.op = "create_session" /\ ret'.ok
          /\ ret'.id \notin DOMAIN sessions
          /\ DOMAIN sessions' = DOMAIN sessions \cup {ret'.id}
          /\ sessions'[ret'.id].history = <<>>
          /\ \A i \in DOMAIN sessions : sessions'[i] = sessions[i]

\* C1: under every interleaving of store calls the number of stored sessions
\* never exceeds max_sessions; a create_session call is refused, adding
\* nothing, exactly when the count is already max_sessions, and otherwise it
\* adds exactly one empty session under an id that was not in the store.
C1_CapacityEnforced ==
    /\ [](Cardinality(DOMAIN sessions) <= max_sessions)
    /\ [][C1_CreateStep]_vars

\* A create_session call has just been refused by a store holding two
\* sessions, both created by earlier calls.
C1_Witness ==
    /\ ret.op = "create_session" /\ ~ret.ok
    /\ max_sessions = 2
    /\ Cardinality(DOMAIN sessions) = 2

\* ------------------------------------------------------------------- C2
HeadSystemKept(h, h2) ==
    (Len(h) > 0 /\ h[1].role = "system") => (Len(h2) > 0 /\ h2[1] = h[1])

C2_AppendStep ==
    /\ \A i \in DOMAIN sessions \cap DOMAIN sessions' :
          HeadSystemKept(sessions[i].history, sessions'[i].history)
    /\ \A p \in Procs :
          (pc[p] = "add_trim" /\ pc'[p] = "idle") =>
              LET h == sessions'[arg[p].id].history IN
              /\ Len(h) > 0 /\ h[Len(h)] = arg[p].msg
              /\ non_system_count(h) <= MAX_HISTORY_MESSAGES

C2_Observed ==
    /\ lock_free =>
          \A i \in DOMAIN sessions :
              non_system_count(sessions[i].history) <= MAX_HISTORY_MESSAGES
    /\ non_system_count(ret.history) <= MAX_HISTORY_MESSAGES

\* C2: after every add_message call the session's history holds at most 50
\* non-system messages, a system message at position 0 is still there and the
\* message just appended is last; whenever the lock is free, which is when
\* get_history and list_sessions read, and in every history get_history has
\* returned, no history holds more than 50 non-system messages.
C2_HistoryBounded == []C2_Observed /\ [][C2_AppendStep]_vars

\* An add_message call has just returned on a session that starts with its
\* system prompt and holds 50 other messages, the oldest seed trimmed away and
\* the appended message last.
C2_Witness ==
    /\ ret.op = "add_message" /\ ret.ok
    /\ ret.id \in DOMAIN sessions
    /\ LET h == sessions[ret.id].history IN
       /\ Len(h) = MAX_HISTORY_MESSAGES + 1
       /\ h[1].role = "system"
       /\ h[2].content # <<"seed", "1">>
       /\ h[Len(h)].content = <<ToString(store_calls)>>

\* ------------------------------------------------------------------- C3
C3_Bounded ==
    /\ provider_calls <= MAX_TOOL_ITERATIONS
    /\ iteration <= MAX_TOOL_ITERATIONS
    /\ turn_result = IterationLimit <=> iteration = MAX_TOOL_ITERATIONS
    /\ iteration = MAX_TOOL_ITERATIONS =>
          /\ provider_calls = MAX_TOOL_ITERATIONS
          /\ turn_pc = "done"
          /\ in_flight = {}
    /\ turn_pc = "done" =>
          \/ turn_result = IterationLimit
          \/ turn_result = ProviderError
          \/ turn_result.ok /\ tool_calls = <<>>

\* C3: a turn makes at most MAX_TOOL_ITERATIONS provider calls; a turn that
\* has ended has met a response without tool calls, a provider failure, or,
\* every response having held a tool call, has completed ten iterations: then
\* it has made exactly ten calls and failed with the iteration-limit error,
\* no further call pending; and, the provider and the tools returning, the
\* turn ends.
C3_IterationCap == []C3_Bounded /\ <>(turn_pc = "done")

\* The turn has failed on the iteration limit after ten provider calls.
C3_Witness ==
    /\ turn_pc = "done"
    /\ turn_result = IterationLimit
    /\ provider_calls = 10
    /\ Len(history) = 22

\* ------------------------------------------------------------------- C4
\* The step in which chat_with_history returns Ok.
ProviderAnswers == turn_pc = "provider" /\ turn_result' # ProviderError

C4_FinalStep ==
    /\ (ProviderAnswers /\ parse_tool_calls(response').calls = <<>>) =>
          /\ history' = Append(history, ChatMessage("assistant", response'))
          /\ turn_pc' = "done"
          /\ in_flight' = {}
          /\ events' = events
          /\ provider_calls' = provider_calls
          /\ turn_result'.ok
          /\ turn_result'.value =
                IF parse_tool_calls(response').text # <<>>
                THEN parse_tool_calls(response').text ELSE response'
    /\ turn_pc = "done" => UNCHANGED <<history, events, provider_calls>>

\* C4: a response without tool calls ends the turn in that iteration: the
\* assistant message holding the raw response is the one message appended, no
\* tool runs, no further provider call is made, and the result is the
\* extracted text when there is some, else the raw response.
C4_FinalAnswer == [][C4_FinalStep]_vars

\* The turn has ended, after one tool iteration, on a response whose
\* extracted text differs from the raw response kept in history.
C4_Witness ==
    /\ turn_pc = "done" /\ turn_result.ok
    /\ iteration = 1
    /\ response = <<" ", "done", "\n">>
    /\ turn_result.value = <<"done">>
    /\ history[Len(history)] = ChatMessage("assistant", response)

\* ------------------------------------------------------------------- C5
C5_FailStep ==
    (turn_pc = "provider" /\ turn_result' = ProviderError) =>
        /\ turn_pc' = "done"
        /\ history' = history
        /\ events' = events
        /\ done_calls = {} /\ done_calls' = {}
        /\ in_flight' = {}

\* C5: when the provider call of an iteration fails the turn returns that
\* error at once: no tool has run in the iteration, and history is what it
\* was when the iteration began.
C5_ProviderFailure ==
    /\ [][C5_FailStep]_vars
    /\ [](turn_result = ProviderError =>
            turn_pc = "done" /\ Len(history) = 2 + 2 * iteration)

\* The provider has failed in the second iteration: history holds the two
\* first messages and the two of the first iteration.
C5_Witness ==
    /\ turn_result = ProviderError
    /\ iteration = 1
    /\ Len(history) = 4

\* ------------------------------------------------------------------- C6
\* The step in which the call at call_idx completes, found or not.
CallCompletes ==
    /\ turn_pc \in {"tools", "tool"}
    /\ (done_calls' # done_calls \/ iteration' # iteration)

C6_CallStep ==
    CallCompletes =>
        IF call_idx < Len(tool_calls)
        THEN turn_pc' = "tools" /\ call_idx' = call_idx + 1
        ELSE /\ done_calls \cup {call_idx} = 1..Len(tool_calls)
             /\ iteration' = iteration + 1
             /\ iteration' < MAX_TOOL_ITERATIONS =>
                    /\ turn_pc' = "provider"
                    /\ provider_calls' = provider_calls + 1

\* C6: no tool failure ends a turn: whatever a call gives (no such tool, an
\* Err, success = false) the next call of the response is reached, after the
\* last call every call of the response has completed and the next provider
\* call is made; a turn that ends in an error ends in the provider's error or
\* the iteration limit.
C6_ToolFailureIsolated ==
    /\ [][C6_CallStep]_vars
    /\ []((turn_pc = "done" /\ ~turn_result.ok) =>
             turn_result \in {ProviderError, IterationLimit})
    /\ [](turn_pc \in {"tools", "tool"} => turn_result = NoResult)

\* The second provider call is pending after an iteration of three calls:
\* one succeeded, one named no tool, one returned Err.
C6_Witness ==
    /\ turn_pc = "provider"
    /\ iteration = 1
    /\ Len(tool_calls) = 3
    /\ tool_calls[2].name = "ghost"
    /\ Len(events) = 2 /\ events[2] = [tool |-> "boom", success |-> FALSE]

\* ------------------------------------------------------------------- C7
\* The names the result blocks of a text are tagged with, in order.
RECURSIVE block_names(_)
block_names(text) ==
    IF Len(text) < 2 THEN <<>>
    ELSE IF text[1] = RESULT_OPEN
         THEN <<text[2]>> \o block_names(SubSeq(text, 3, Len(text)))
    ELSE block_names(Tail(text))

count_of(text, tok) == Cardinality({i \in 1..Len(text) : text[i] = tok})

C7_PushStep ==
    /\ (turn_pc \in {"tools", "tool"} /\ history' # history) =>
          LET n == Len(history) IN
          /\ Len(history') = n + 2
          /\ SubSeq(history', 1, n) = history
          /\ history'[n + 1] = ChatMessage("assistant", response)
          /\ history'[n + 2].role = "user"
          /\ block_names(history'[n + 2].content)
                = [i \in 1..Len(tool_calls) |-> tool_calls[i].name]
          /\ count_of(history'[n + 2].content, "</tool_result>")
                = Len(tool_calls)
          /\ done_calls \cup {call_idx} = 1..Len(tool_calls)
          /\ \A f \in in_flight' : f.kind # "execute"
          /\ iteration' = iteration + 1
    /\ (turn_pc \in {"tools", "tool"} /\ iteration' # iteration) =>
          history' # history

\* C7: an iteration whose response holds tool calls appends exactly two
\* messages, once all its calls have completed: the assistant message holding
\* the raw response, then one user message holding one result block per call,
\* tagged with the call's tool name, in the calls' order.
C7_ResultsAppended ==
    /\ [][C7_PushStep]_vars
    /\ [](Len(history) = 2 + 2 * iteration + (IF turn_result.ok THEN 1 ELSE 0))

\* An iteration of three calls (a fourth marker pair was malformed) has
\* just been appended.
C7_Witness ==
    /\ iteration = 1
    /\ Len(history) = 4
    /\ history[3].role = "assistant" /\ history[3].content = response
    /\ count_of(response, OPEN) = 4
    /\ block_names(history[4].content) = <<"fail", "quiet", "">>

\* ------------------------------------------------------------------- C8
Executing == {f \in in_flight : f.kind = "execute"}

C8_StartStep ==
    \A k \in 1..Len(tool_calls') :
        (Awaited("execute", k) \in in_flight'
            /\ Awaited("execute", k) \notin in_flight) =>
                /\ in_flight = {}
                /\ done_calls = 1..(k - 1)

\* C8: within a turn the calls of a response run one after the other in
\* their order: the execution of a call starts with nothing in flight and
\* every earlier call of the response completed; at most one future, a tool
\* execution or the provider call, is in flight at any time.
C8_Sequential ==
    /\ [][C8_StartStep]_vars
    /\ [](Cardinality(in_flight) <= 1)

\* The third call of a response is executing, the first two completed.
C8_Witness ==
    /\ in_flight = {Awaited("execute", 3)}
    /\ done_calls = {1, 2}

\* ------------------------------------------------------------------- C9
ToolOf(call) == Registry[find_tool(Registry, call.name)]

\* C9 as claimed: every call processed in a turn, a call whose tool is not
\* found included, appends exactly one event, which carries the call's name.
C9_EveryCallOneEvent ==
    [][CallCompletes =>
          /\ Len(events') = Len(events) + 1
          /\ events'[Len(events')].tool = tool_calls[call_idx].name]_vars

C9_EventStep ==
    /\ CallCompletes =>
          LET call == tool_calls[call_idx] IN
          IF find_tool(Registry, call.name) # 0
          THEN /\ events' = Append(events,
                    [tool |-> call.name,
                     success |-> ToolOf(call).returns = "Ok"
                                   /\ ToolOf(call).success])
               /\ done_calls = 1..(call_idx - 1)
          ELSE events' = events
    /\ ~CallCompletes => events' = events

\* C9 amended: every call whose tool is found appends, when its execute
\* returns, exactly one event carrying the call's name and a success flag that
\* is true only when the tool returned success, the earlier calls of the
\* response having completed before; a call whose tool is not found appends
\* no event, and nothing else appends one.
C9_FoundCallOneEvent == [][C9_EventStep]_vars

\* Three calls have been processed and two events recorded: the call naming
\* no tool left none.
C9_Witness ==
    /\ iteration = 1
    /\ Len(tool_calls) = 3
    /\ tool_calls[2].name = "ghost"
    /\ events = << [tool |-> "shell", success |-> TRUE],
                   [tool |-> "boom", success |-> FALSE] >>

\* ------------------------------------------------------------------ C10
last_of(text, tok) ==
    IF \E i \in 1..Len(text) : text[i] = tok
    THEN CHOOSE i \in 1..Len(text) :
            text[i] = tok /\ \A j \in (i + 1)..Len(text) : text[j] # tok
    ELSE 0

\* The opening marker with no closing marker after it at which a scan stops:
\* the first opening marker after the last closing marker, 0 when none.
unmatched_open(text) ==
    LET rest == SubSeq(text, last_of(text, CLOSE) + 1, Len(text)) IN
    IF find(rest, OPEN) = 0 THEN 0
    ELSE last_of(text, CLOSE) + find(rest, OPEN)

\* C10 as claimed: on a text with an unmatched opening marker the free text
\* returned is that of the text before the marker, each segment once; the
\* marker and the text after it are not returned.
C10_TruncatesAtUnmatched ==
    (parse_output # <<>> /\ unmatched_open(parse_input) # 0) =>
        /\ parse_output[1].text =
              parse_tool_calls(
                  SubSeq(parse_input, 1, unmatched_open(parse_input) - 1)).text
        /\ \A i \in 1..Len(parse_output[1].text) :
              parse_output[1].text[i] # OPEN

\* ------------------------------------------------------------------ C11
\* The content of a marker pair that serde_json deserializes.
well_formed(inner) == Len(trim(inner)) = 1 /\ trim(inner)[1] \in JsonTexts

\* Two free texts put together as the parser joins its parts.
glue(a, b) ==
    IF a = <<>> THEN b ELSE IF b = <<>> THEN a ELSE a \o <<"\n">> \o b

\* The marker pairs <<i, j>> of a text whose content does not deserialize:
\* an opening marker at i that no earlier opening marker leaves pending, and
\* the first closing marker after it at j.
MalformedPairs(text) ==
    {ij \in (1..Len(text)) \X (1..Len(text)) :
        /\ ij[1] < ij[2]
        /\ text[ij[1]] = OPEN
        /\ text[ij[2]] = CLOSE
        /\ \A k \in (ij[1] + 1)..(ij[2] - 1) : text[k] # CLOSE
        /\ unmatched_open(SubSeq(text, 1, ij[1] - 1)) = 0
        /\ ~well_formed(SubSeq(text, ij[1] + 1, ij[2] - 1))}

\* C11: a marker pair whose content does not deserialize contributes no call
\* and does not end the parse: the calls returned are those of the text
\* before the pair followed by those of the text after it, and the free text
\* is that of the text before it joined with that of the text after it.
C11_MalformedPairSkipped ==
    parse_output # <<>> =>
        \A ij \in MalformedPairs(parse_input) :
            LET pre == parse_tool_calls(SubSeq(parse_input, 1, ij[1] - 1))
                post == parse_tool_calls(
                            SubSeq(parse_input, ij[2] + 1, Len(parse_input)))
            IN /\ parse_output[1].calls = pre.calls \o post.calls
               /\ parse_output[1].text = glue(pre.text, post.text)

\* A text with a malformed pair between two words and a well-formed pair
\* after them has been parsed: both words and the later call are returned.
C11_Witness ==
    /\ parse_input = <<"a", OPEN, "junk", CLOSE, "b", OPEN, J_SHELL, CLOSE>>
    /\ parse_output # <<>>
    /\ parse_output[1].text = <<"a", "\n", "b">>
    /\ Len(parse_output[1].calls) = 1
    /\ parse_output[1].calls[1].name = "shell"

\* ------------------------------------------------------------------ C12
\* The marker pairs <<i, j>> of a text from position `from` on, in order: the
\* first opening marker, the first closing marker after it, and so on from
\* behind that closing marker.
RECURSIVE marker_pairs(_, _)
marker_pairs(text, from) ==
    LET o == find(SubSeq(text, from, Len(text)), OPEN) IN
    IF o = 0 THEN <<>>
    ELSE LET i == from + o - 1
             c == find(SubSeq(text, i + 1, Len(text)), CLOSE)
         IN IF c = 0 THEN <<>>
            ELSE <<<<i, i + c>>>> \o marker_pairs(text, i + c + 1)

pair_content(text, ij) == SubSeq(text, ij[1] + 1, ij[2] - 1)

\* The pairs among them whose content deserializes.
RECURSIVE well_formed_pairs(_, _)
well_formed_pairs(text, pairs) ==
    IF pairs = <<>> THEN <<>>
    ELSE (IF well_formed(pair_content(text, pairs[1]))
          THEN <<pairs[1]>> ELSE <<>>)
         \o well_formed_pairs(text, Tail(pairs))

\* C12: the calls returned are one per marker pair whose content
\* deserializes, in the order of the pairs, however many there are; the call
\* of a pair that holds an object with a text name carries that name, and it
\* carries the object's arguments when it has any.
C12_OneCallPerPairInOrder ==
    parse_output # <<>> =>
        LET ps == well_formed_pairs(parse_input, marker_pairs(parse_input, 1))
            calls == parse_output[1].calls
        IN /\ Len(calls) = Len(ps)
           /\ \A k \in 1..Len(ps) :
                LET v == Json(trim(pair_content(parse_input, ps[k]))[1]) IN
                /\ v.name # <<>> => calls[k].name = v.name[1]
                /\ v.arguments # <<>> => calls[k].arguments = v.arguments[1]

\* A text of three well-formed pairs and a malformed one between them has
\* been parsed into three calls in the order of their pairs.
C12_Witness ==
    /\ parse_input = <<OPEN, J_SHELL, CLOSE, OPEN, "junk", CLOSE,
                       OPEN, "\n", J_FAIL, "\n", CLOSE, OPEN, J_NOARGS, CLOSE>>
    /\ parse_output # <<>>
    /\ Len(parse_output[1].calls) = 3
    /\ parse_output[1].calls[1].name = "shell"
    /\ parse_output[1].calls[2].name = "fail"
    /\ parse_output[1].calls[3].arguments = "{}"

\* ------------------------------------------------------------------ C13
\* The segments of a text lying outside its marker pairs, in order: before
\* the first pair, between consecutive pairs, and behind the last pair.
outside_segments(text) ==
    LET ps == marker_pairs(text, 1)
        n == Len(ps)
    IN [k \in 1..(n + 1) |->
          SubSeq(text,
                 IF k = 1 THEN 1 ELSE ps[k - 1][2] + 1,
                 IF k = n + 1 THEN Len(text) ELSE ps[k][1] - 1)]

\* Those of them that are not blank, each without its surrounding blanks.
RECURSIVE non_blank(_)
non_blank(segs) ==
    IF segs = <<>> THEN <<>>
    ELSE (IF trim(segs[1]) # <<>> THEN <<trim(segs[1])>> ELSE <<>>)
         \o non_blank(Tail(segs))

TextOutsidePairs ==
    /\ parse_output[1].text = join(non_blank(outside_segments(parse_input)), "\n")
    /\ find(parse_input, OPEN) = 0 /\ find(parse_input, CLOSE) = 0 =>
          /\ parse_output[1].text = trim(parse_input)
          /\ parse_output[1].calls = <<>>

\* C13 as claimed: the free text returned is made of exactly the non-blank
\* segments lying outside the marker pairs, each once and in source order,
\* markers and pair contents excluded; a text without a marker is returned
\* whole (its surrounding blanks apart) with no call.
C13_TextOutsidePairs == parse_output # <<>> => TextOutsidePairs

\* The same on the texts in which no opening marker is left without a
\* closing marker after it: there it holds.
C13_TextOutsideMatchedPairs ==
    (parse_output # <<>> /\ unmatched_open(parse_input) = 0) => TextOutsidePairs

\* ------------------------------------------------------------------ C14
\* A cleanup_expired call, which is one step under the lock.
CleanupStep ==
    store_calls' = store_calls + 1 /\ pc' = pc /\ ret'.op = "cleanup_expired"

\* The step removes exactly the sessions of `expired`, returns their number
\* and leaves every other session as it was.
EvictsExactly(expired) ==
    /\ DOMAIN sessions' = DOMAIN sessions \ expired
    /\ ret'.n = Cardinality(expired)
    /\ \A i \in DOMAIN sessions' : sessions'[i] = sessions[i]

\* C14 as claimed: cleanup_expired removes exactly the sessions whose idle
\* duration, now minus last_activity, exceeds the timeout.
C14_EvictsIdleBeyondTimeout ==
    [][CleanupStep =>
          EvictsExactly({i \in DOMAIN sessions :
              now - sessions[i].last_activity > timeout_secs * TicksPerSec})]_vars

\* C14: cleanup_expired removes exactly the sessions whose idle duration in
\* whole seconds is at least the timeout, returns their number and leaves
\* every other session unchanged; an id that is no longer stored is never
\* stored again, so an existence check for a removed id is false.
C14_EvictsIdleAtLeastTimeout ==
    /\ [][CleanupStep =>
            EvictsExactly({i \in DOMAIN sessions :
                as_secs(now - sessions[i].last_activity) >= timeout_secs})]_vars
    /\ [][\A i \in 1..next_uuid :
            i \notin DOMAIN sessions => i \notin DOMAIN sessions']_vars

\* A cleanup_expired call with a timeout of one second has just removed one
\* of two sessions and kept the other, which was active more recently.
C14_Witness ==
    /\ ret.op = "cleanup_expired" /\ ret.n = 1
    /\ timeout_secs = 1
    /\ next_uuid = 2
    /\ DOMAIN sessions = {2}

\* ------------------------------------------------------------------ C15
\* A get_history or add_message call returns in the step it was started in.
LookupReturns(op) ==
    store_calls' = store_calls + 1 /\ pc' = pc /\ ret'.op = op

C15_LookupStep ==
    /\ LookupReturns("get_history") =>
          /\ ret'.ok <=> ret'.id \in DOMAIN sessions
          /\ ~ret'.ok => sessions' = sessions
    /\ LookupReturns("add_message") =>
          /\ ~ret'.ok
          /\ ret'.id \notin DOMAIN sessions
          /\ sessions' = sessions
    /\ \A p \in Procs :
          (pc[p] = "idle" /\ pc'[p] = "add_trim") =>
              arg'[p].id \in DOMAIN sessions

\* C15: get_history and add_message fail exactly on an id that is not
\* stored, and the failing call leaves the map as it was: no session is
\* created and no session's history or last_activity changes.
C15_NotFoundLeavesStore == [][C15_LookupStep]_vars

\* An add_message call on an id that is not stored has just failed while
\* another session is stored.
C15_Witness ==
    /\ ret.op = "add_message" /\ ~ret.ok
    /\ ret.id \notin DOMAIN sessions
    /\ DOMAIN sessions # {}

\* ------------------------------------------------------------------ C16
\* The step in which p's execute call is started; it returns in that step or
\* is admitted.
DelegStarts(p) == deleg_pc[p] = "idle" /\ deleg_started' = deleg_started + 1
DelegRejected(p) ==
    /\ DelegStarts(p)
    /\ deleg_ret'.by = p /\ deleg_pc' = deleg_pc
    /\ deleg_ret'.error # <<>> /\ deleg_ret'.error[1] = DEPTH_LIMIT

C16_CheckStep ==
    \A p \in DelegProcs :
        /\ DelegRejected(p) =>
              /\ deleg_ret'.agent \in AgentNames
              /\ Agents[deleg_ret'.agent].max_depth <= current_depth
              /\ deleg_ret'.returns = "Ok" /\ ~deleg_ret'.success
              /\ deleg_ret'.error =
                    <<DEPTH_LIMIT, current_depth, Agents[deleg_ret'.agent].max_depth>>
              /\ current_depth' = current_depth
              /\ sub_calls' = sub_calls
        /\ (DelegStarts(p) /\ deleg_ret'.by = p /\ deleg_pc' = deleg_pc
                /\ deleg_ret'.agent \in AgentNames) =>
              deleg_ret'.error[1] \in {DEPTH_LIMIT, "Missing 'prompt' parameter"}
        /\ (DelegStarts(p) /\ deleg_pc'[p] = "admitted") =>
              /\ deleg_arg'[p].agent[1] \in AgentNames
              /\ current_depth < Agents[deleg_arg'[p].agent[1]].max_depth

\* C16: a delegation naming a configured target with its prompt is rejected
\* exactly when current_depth has reached that target's own max_depth; the
\* rejection is Ok(success = false) with the depth-limit error carrying the
\* depth and that limit, no chat_with_system call is made for it and
\* current_depth is not changed.
C16_DepthLimitRejects == [][C16_CheckStep]_vars

\* With one sub-agent call in flight, a delegation to the target whose
\* max_depth is 1 has just been rejected.
C16_Witness ==
    /\ deleg_ret.agent = "coder"
    /\ deleg_ret.error = <<DEPTH_LIMIT, 1, 1>>
    /\ current_depth = 1
    /\ deleg_pc[deleg_ret.by] = "idle"

\* ------------------------------------------------------------------ C17
\* The execute calls whose sub-agent call is in flight.
InFlight == {p \in DelegProcs : deleg_pc[p] = "awaiting"}

C17_Balanced ==
    /\ current_depth = Cardinality(InFlight)
    /\ (\A p \in DelegProcs : deleg_pc[p] = "idle") => current_depth = 0

C17_ExitStep ==
    \A p \in DelegProcs :
        /\ (deleg_pc[p] = "awaiting" /\ deleg_pc'[p] = "idle") =>
              /\ current_depth' = current_depth - 1
              /\ deleg_ret'.by = p /\ deleg_ret'.returns = "Ok"
        /\ (deleg_pc[p] = "admitted" /\ deleg_pc'[p] = "idle") =>
              current_depth' = current_depth
        /\ (DelegStarts(p) /\ deleg_pc' = deleg_pc) =>
              current_depth' = current_depth
        /\ (deleg_pc[p] = "admitted" /\ deleg_pc'[p] = "awaiting") =>
              current_depth' = current_depth + 1

\* C17: current_depth always equals the number of sub-agent calls in flight:
\* a delegation raises it by one when its call starts and lowers it by one
\* when the call returns, successfully or not, and every other way out of
\* execute leaves it alone; so each delegation leaves the counter as it would
\* be without it, and when all delegations have completed it is 0 again.
C17_DepthNeverLeaks == []C17_Balanced /\ [][C17_ExitStep]_vars

\* Two sub-agent calls have been made, the last to return failed, and all
\* delegations have completed with the counter back at 0.
C17_Witness ==
    /\ sub_calls = 2
    /\ deleg_ret.error # <<>> /\ deleg_ret.error[1] = "Agent failed"
    /\ \A p \in DelegProcs : deleg_pc[p] = "idle"
    /\ current_depth = 0

\* ------------------------------------------------------------------ C18
\* C18 as claimed: under every interleaving of concurrent delegations no
\* sub-agent call is started once current_depth has reached the target's
\* max_depth.
C18_LimitEnforcedConcurrently ==
    [][\A p \in DelegProcs :
          (deleg_pc[p] = "admitted" /\ deleg_pc'[p] = "awaiting") =>
              current_depth < Agents[deleg_arg[p].agent[1]].max_depth]_vars

\* ------------------------------------------------------------------ C19

\* The steps of the unknown-session path of handler c: create_session has
\* returned; the seeding and the two replies are done.
ReplacementStep(c) == gw_pc[c] = "chat_create" /\ gw_pc'[c] # "chat_create"
SeedStep(c) == gw_pc[c] = "chat_seed" /\ gw_pc'[c] # "chat_seed"

\* A replacement session exists after the step under an id that no earlier
\* create_session call returned and that is not the requested one.
ReplacementCreated(c) ==
    LET new_id == gw_cur'[c].new_id IN
    /\ gw_pc'[c] = "chat_seed"
    /\ new_id \notin 1..next_uuid
    /\ new_id # gw_cur[c].session_id
    /\ new_id \notin DOMAIN sessions
    /\ new_id \in DOMAIN sessions'
    /\ \A i \in DOMAIN sessions : sessions'[i] = sessions[i]

\* The step sends Error and then SessionCreated with the new id, and nothing
\* else.
RepliesErrorThenCreated(c) ==
    /\ Len(outbox'[c]) = Len(outbox[c]) + 2
    /\ SubSeq(outbox'[c], 1, Len(outbox[c])) = outbox[c]
    /\ outbox'[c][Len(outbox[c]) + 1].type = "error"
    /\ outbox'[c][Len(outbox[c]) + 2] = SrvSessionCreated(gw_cur[c].new_id)

\* The step appended the system prompt to session id and touched no other
\* session.
SeededAfter(id) ==
    LET h == sessions'[id].history IN
    /\ Len(h) > 0
    /\ h[Len(h)] = SYSTEM_PROMPT
    /\ id \in DOMAIN sessions => Len(h) = Len(sessions[id].history) + 1
    /\ \A i \in DOMAIN sessions \ {id} :
            i \in DOMAIN sessions' /\ sessions'[i] = sessions[i]

\* C19 as stated: a Chat message naming a session id that is not in the
\* store makes the gateway create a replacement session under a fresh id
\* different from the requested one, seed it with the system prompt, and reply
\* with an Error followed by a SessionCreated carrying the new id.
C19_ReplacementAlways ==
    [][\A c \in Conns :
        /\ ReplacementStep(c) => ReplacementCreated(c)
        /\ SeedStep(c) =>
            /\ RepliesErrorThenCreated(c)
            /\ gw_cur[c].new_id \in DOMAIN sessions'
            /\ SeededAfter(gw_cur[c].new_id)]_vars

\* C19, amended: a Chat message naming a session id that is not in the store
\* makes the gateway call create_session. Below capacity, a replacement
\* session is created under a fresh id different from the requested one, and
\* the reply is an Error followed by a SessionCreated carrying the new id; the
\* system prompt is appended to the replacement if it is still in the store
\* when it is seeded, and nothing is seeded if it was evicted in between. At
\* capacity no session is created and the reply is one Error.
C19_ReplacementUnlessFull ==
    [][\A c \in Conns :
        /\ ReplacementStep(c) =>
            IF store_full
            THEN /\ sessions' = sessions
                 /\ outbox'[c] = Append(outbox[c], SrvError(ErrCapacity))
                 /\ gw_pc'[c] = "recv"
            ELSE ReplacementCreated(c) /\ outbox'[c] = outbox[c]
        /\ SeedStep(c) =>
            /\ RepliesErrorThenCreated(c)
            /\ gw_pc'[c] = "recv"
            /\ IF gw_cur[c].new_id \in DOMAIN sessions
               THEN /\ gw_cur[c].new_id \in DOMAIN sessions'
                    /\ SeededAfter(gw_cur[c].new_id)
               ELSE sessions' = sessions]_vars

\* A handler has replied Error, SessionCreated for an unknown id and the
\* replacement is in the store with the system prompt.
C19_Witness ==
    \E c \in Conns : \E k \in 1..Len(outbox[c]) - 1 :
        /\ outbox[c][k] = SrvError(ErrReplaced(Bogus))
        /\ outbox[c][k + 1].type = "session_created"
        /\ outbox[c][k + 1].session_id \in DOMAIN sessions
        /\ sessions[outbox[c][k + 1].session_id].history = <<SYSTEM_PROMPT>>

\* ------------------------------------------------------------------ C20

OnUnknownPath(c) == gw_pc[c] \in {"chat_create", "chat_seed"}

\* After the step no session holds a user message with the content and no
\* provider call was made for it.
UnprocessedAfter(content) ==
    /\ \A i \in DOMAIN sessions' : \A k \in 1..Len(sessions'[i].history) :
            sessions'[i].history[k] # ChatMessage("user", content)
    /\ \A k \in 1..Len(gw_calls') : gw_calls'[k].content # content

\* C20: on the unknown-session path of a Chat message the original message is
\* not processed: while its handler is on that path no user message with its
\* content is in any session, the handler sends neither Typing nor Message,
\* no provider call is made for it, and the handler goes back to awaiting the
\* next frame with the message dropped.
C20_UnknownPathDropsMessage ==
    [][\A c \in Conns : OnUnknownPath(c) =>
        /\ UnprocessedAfter(gw_cur[c].content)
        /\ \A k \in (Len(outbox[c]) + 1)..Len(outbox'[c]) :
                outbox'[c][k].type \notin {"typing", "message"}
        /\ gw_pc'[c] \in {"chat_create", "chat_seed", "recv"}
        /\ gw_pc'[c] = "recv" => gw_cur'[c] = NoCur]_vars

\* A handler is back at awaiting a frame after the unknown-session path, while
\* another Chat message was handled to its Message reply.
C20_Witness ==
    \E c, d \in Conns :
        /\ gw_pc[c] = "recv"
        /\ \E k \in 1..Len(outbox[c]) : outbox[c][k].content = ErrReplaced(Bogus)
        /\ \E k \in 1..Len(outbox[d]) : outbox[d][k].type = "message"

\* ------------------------------------------------------------------ C21

\* Handler c takes the step it awaits at position.
StepFrom(c, position) == gw_pc[c] = position /\ gw_pc'[c] # position

\* What handler c sends in the step.
Sent(c) == SubSeq(outbox'[c], Len(outbox[c]) + 1, Len(outbox'[c]))

\* The step appended message to session id and touched nothing else of the
\* store's sessions but that session's last_activity.
AppendedTo(id, message) ==
    /\ DOMAIN sessions' = DOMAIN sessions
    /\ sessions'[id].history = Append(sessions[id].history, message)
    /\ \A i \in DOMAIN sessions \ {id} : sessions'[i] = sessions[i]

\* One Error is all the step sends, and the handler awaits the next frame.
FailsWithError(c) ==
    /\ Len(Sent(c)) = 1
    /\ Sent(c)[1].type = "error"
    /\ gw_pc'[c] = "recv"
    /\ gw_calls' = gw_calls

\* The steps of a Chat on an existing session, in their order.
ChatSteps(c) ==
    LET id == gw_cur[c].session_id IN
    /\ StepFrom(c, "chat_add_user") =>
        IF id \in DOMAIN sessions
        THEN /\ AppendedTo(id, ChatMessage("user", gw_cur[c].content))
             /\ Sent(c) = <<SrvTyping>>
             /\ gw_calls' = gw_calls
             /\ gw_pc'[c] = "chat_history"
        ELSE FailsWithError(c) /\ sessions' = sessions
    /\ StepFrom(c, "chat_history") =>
        IF id \in DOMAIN sessions
        THEN /\ gw_calls' = Append(gw_calls,
                    [conn |-> c, content |-> gw_cur[c].content,
                     history |-> sessions[id].history])
             /\ \A i \in DOMAIN sessions : sessions'[i].history = sessions[i].history
             /\ Sent(c) = <<>>
             /\ gw_pc'[c] = "chat_provider"
        ELSE FailsWithError(c) /\ sessions' = sessions
    /\ StepFrom(c, "chat_provider") =>
        /\ sessions' = sessions
        /\ \/ FailsWithError(c)
           \/ /\ Sent(c) = <<>>
              /\ gw_calls' = gw_calls
              /\ gw_pc'[c] = "chat_add_assistant"
    /\ StepFrom(c, "chat_add_assistant") =>
        /\ Sent(c) = <<SrvMessage(gw_cur[c].response, id)>>
        /\ gw_calls' = gw_calls
        /\ gw_pc'[c] = "recv"
        /\ IF id \in DOMAIN sessions
           THEN AppendedTo(id, ChatMessage("assistant", gw_cur[c].response))
           ELSE sessions' = sessions

\* Every Typing a handler sent is followed by one Message or Error, once the
\* handler is past that Chat.
TypingThenReply ==
    \A c \in Conns : \A k \in 1..Len(outbox[c]) :
        outbox[c][k].type = "typing" =>
            IF k < Len(outbox[c])
            THEN outbox[c][k + 1].type \in {"message", "error"}
            ELSE gw_pc[c] \in {"chat_history", "chat_provider", "chat_add_assistant"}

\* The text is what agent_turn returns as a final answer: it holds no tool
\* call left to execute.
TurnAnswer(text) == parse_tool_calls(text).calls = <<>>

C22_MessageMeansStored ==
    [][\A c \in Conns :
        (/\ Len(Sent(c)) > 0
         /\ Sent(c)[Len(Sent(c))].type = "message") =>
            LET m == Sent(c)[Len(Sent(c))] IN
            /\ m.session_id \in DOMAIN sessions'
            /\ \E k \in 1..Len(sessions'[m.session_id].history) :
                sessions'[m.session_id].history[k] =
                    ChatMessage("assistant", m.content)]_vars

\* ------------------------------------------------------------------ C23

\* The handler's step sends an Error as its only or first reply.
RepliesError(c) == Len(Sent(c)) > 0 /\ Sent(c)[1].type = "error"

\* C23: no failure is fatal to a gateway connection: after any Error reply
\* (unparseable frame, capacity, not found, provider error) the handler goes
\* back to awaiting the next client message with the connection's earlier
\* replies untouched, and a handler ends only by the step that receives a
\* Close frame or the end of the stream.
C23_ErrorsNotFatal ==
    [][\A c \in Conns :
        /\ RepliesError(c) =>
            /\ gw_pc'[c] = "recv"
            /\ gw_cur'[c] = NoCur
            /\ SubSeq(outbox'[c], 1, Len(outbox[c])) = outbox[c]
        /\ (gw_pc[c] # "closed" /\ gw_pc'[c] = "closed") =>
            /\ gw_pc[c] = "recv"
            /\ gw_frames' = gw_frames + 1
            /\ Sent(c) = <<>>
            /\ sessions' = sessions]_vars

\* After a provider error on a connection, a later Chat on it reached its
\* Typing.
C23_Witness ==
    \E c \in Conns : \E k \in 1..Len(outbox[c]) - 1 :
        /\ outbox[c][k] = SrvError(ErrProvider)
        /\ outbox[c][k + 1] = SrvTyping

\* ------------------------------------------------------------------ C24

NewSessionCreates(c) == gw_pc[c] = "recv" /\ gw_pc'[c] = "ns_seed"
NewSessionRefused(c) == gw_pc[c] = "recv" /\ Sent(c) = <<SrvError(ErrCapacity)>>

\* The create_session step of NewSession and its refusal at capacity.
NewSessionCreateStep(c) ==
    /\ NewSessionCreates(c) =>
        /\ ~store_full
        /\ gw_cur'[c].new_id \notin DOMAIN sessions
        /\ DOMAIN sessions' = DOMAIN sessions \cup {gw_cur'[c].new_id}
        /\ sessions'[gw_cur'[c].new_id].history = <<>>
        /\ \A i \in DOMAIN sessions : sessions'[i] = sessions[i]
        /\ Sent(c) = <<>>
    /\ NewSessionRefused(c) =>
        /\ store_full
        /\ sessions' = sessions
        /\ gw_pc'[c] = "recv"

\* C24: NewSession creates one session, seeds its history with the system
\* prompt as the only message, and replies SessionCreated with that session's
\* id; when the store is at capacity it replies Error instead and creates
\* nothing.
C24_NewSessionSeeded ==
    [][\A c \in Conns :
        /\ NewSessionCreateStep(c)
        /\ StepFrom(c, "ns_seed") =>
            /\ Sent(c) = <<SrvSessionCreated(gw_cur[c].new_id)>>
            /\ gw_cur[c].new_id \in DOMAIN sessions'
            /\ sessions'[gw_cur[c].new_id].history = <<SYSTEM_PROMPT>>]_vars

\* The same, for a session that no other task touched between its creation
\* and its seeding.
C24_NewSessionSeededIfUntouched ==
    [][\A c \in Conns :
        /\ NewSessionCreateStep(c)
        /\ StepFrom(c, "ns_seed") =>
            /\ Sent(c) = <<SrvSessionCreated(gw_cur[c].new_id)>>
            /\ (/\ gw_cur[c].new_id \in DOMAIN sessions
                /\ sessions[gw_cur[c].new_id].history = <<>>) =>
                    /\ gw_cur[c].new_id \in DOMAIN sessions'
                    /\ sessions'[gw_cur[c].new_id].history = <<SYSTEM_PROMPT>>]_vars

\* ------------------------------------------------------------------ C25

TrimHistoryStep == trim_n' = trim_n + 1 /\ trim_by' = "loop"

\* The most recent `limit` of the messages after an exempt head, behind that
\* head.
TrimmedTo(h, limit) ==
    LET exempt == Len(h) > 0 /\ h[1].role = "system"
        rest == IF exempt THEN Tail(h) ELSE h
        keep == IF Len(rest) > limit THEN limit ELSE Len(rest)
    IN  (IF exempt THEN <<h[1]>> ELSE <<>>)
        \o SubSeq(rest, Len(rest) - keep + 1, Len(rest))

\* Where message m is in h (the messages handed to a trim are all different).
PositionIn(h, m) == CHOOSE a \in 1..Len(h) : h[a] = m

\* C25: trim keeps the message at index 0 exempt from removal if and only if
\* it is a system message, and among the remaining messages removes exactly
\* the oldest (count - limit) when count exceeds limit and nothing otherwise,
\* preserving the relative order of all kept messages; one system message
\* plus limit + 20 user messages gives the system message followed by the
\* limit most recent user messages.
C25_TrimKeepsHeadAndRecent ==
    [][TrimHistoryStep =>
        /\ trim_h' = TrimmedTo(trim_h, MAX_HISTORY_MESSAGES)
        /\ (Len(trim_h) > 0 /\ trim_h[1].role = "system") =>
                Len(trim_h') > 0 /\ trim_h'[1] = trim_h[1]
        /\ (/\ Len(trim_h) > MAX_HISTORY_MESSAGES
            /\ trim_h[1].role # "system") =>
                \A i \in 1..Len(trim_h') : trim_h'[i] # trim_h[1]
        /\ \A i \in 1..Len(trim_h') : \E a \in 1..Len(trim_h) : trim_h[a] = trim_h'[i]
        /\ \A i \in 1..(Len(trim_h') - 1) :
            PositionIn(trim_h, trim_h'[i]) < PositionIn(trim_h, trim_h'[i + 1])]_vars

\* trim_history was applied to the system prompt followed by limit + slack
\* user messages and left the prompt and the limit most recent of them.
C25_Witness ==
    /\ trim_by = "loop"
    /\ trim_prev = TrimInput("system", MAX_HISTORY_MESSAGES + TrimSlack, 0, FALSE)
    /\ Len(trim_h) = MAX_HISTORY_MESSAGES + 1
    /\ trim_h[1] = ChatMessage("system", <<"head">>)
    /\ trim_h[2].content = <<"msg", ToString(TrimSlack + 1)>>
    /\ trim_h[Len(trim_h)].content =
            <<"msg", ToString(MAX_HISTORY_MESSAGES + TrimSlack)>>

\* ------------------------------------------------------------------ C26

\* C26: trim is idempotent: applying trim_history to what trim_history
\* returned changes nothing, and applying Session::trim_history to what
\* Session::trim_history returned changes nothing.
C26_TrimIdempotent ==
    [][/\ (trim_by = "loop" /\ trim_by' = "loop" /\ trim_n' = trim_n + 1) =>
            trim_h' = trim_h
       /\ (trim_by = "session" /\ trim_by' = "session" /\ trim_n' = trim_n + 1) =>
            trim_h' = trim_h]_vars

\* Session::trim_history was applied twice in a row to a history that the
\* first application shortened.
C26_Witness ==
    /\ trim_n = 2
    /\ trim_by = "session"
    /\ trim_prev = trim_h
    /\ non_system_count(trim_h) = MAX_HISTORY_MESSAGES
    /\ \A i \in 1..Len(trim_h) : trim_h[i].content # <<"msg", "1">>

\* ------------------------------------------------------------------ C27

\* C27: a session, once created, stays in the store under its id through
\* every create, get_history, append, list and session_exists call; the only
\* step that ever removes a session is a cleanup_expired call, and it removes
\* only sessions idle for the timeout.
C27_OnlyEvictionRemoves ==
    [][\A i \in DOMAIN sessions :
        IF i \in DOMAIN sessions'
        THEN /\ sessions'[i].id = sessions[i].id
             /\ sessions'[i].created_at = sessions[i].created_at
        ELSE /\ CleanupStep
             /\ as_secs(now - sessions[i].last_activity) >= timeout_secs]_vars

\* A session with a message is still stored after as many calls as a
\* behaviour holds, the last of them a read.
C27_Witness ==
    /\ store_calls = MaxCalls
    /\ ret.op \in {"list_sessions", "session_exists", "get_history"}
    /\ \E i \in DOMAIN sessions : sessions[i].history # <<>>

\* ------------------------------------------------------------------ C28

\* The request carries the configured token: as the Authorization header
\* 'Bearer ' followed by exactly the token, or as the `token` parameter.
BearsToken ==
    \/ headers = << <<BEARER>> \o token_config >>
    \/ query = <<token_config>>

\* C28: check_auth authorizes a request if and only if the configured token
\* is empty, or the Authorization header is 'Bearer ' followed by exactly the
\* configured token, or the 'token' query parameter equals the configured
\* token; with a non-empty configured token a request with no or wrong
\* credentials is rejected.
C28_AuthorizedIffToken ==
    authorized # <<>> =>
        /\ authorized[1] <=> (token_config = <<>> \/ BearsToken)
        /\ (token_config # <<>> /\ ~BearsToken) => authorized = <<FALSE>>

\* A request was authorized by its header against a non-empty token, with a
\* wrong token parameter.
C28_Witness ==
    /\ authorized = <<TRUE>>
    /\ token_config # <<>>
    /\ headers # <<>>
    /\ query # <<>> /\ query[1] # token_config

\* ------------------------------------------------------------------ C30

\* The history agent_turn is entered with.
TurnStartHistory ==
    <<ChatMessage("system", <<"prompt">>), ChatMessage("user", <<"hello">>)>>

\* The messages the turn has added.
Added == Len(history) - Len(TurnStartHistory)

\* C30: agent_turn only appends to history: every step leaves the messages
\* already there in place and unchanged, and a turn that made k provider
\* calls has added exactly 2(k-1)+1 messages when it ends with a final answer,
\* 2(k-1) when its k-th provider call failed, and 2*10 when it hit the
\* iteration cap.
C30_TurnOnlyAppends ==
    /\ [][/\ Len(history') >= Len(history)
          /\ SubSeq(history', 1, Len(history)) = history]_vars
    /\ [](/\ SubSeq(history, 1, Len(TurnStartHistory)) = TurnStartHistory
          /\ turn_pc = "done" =>
                IF turn_result.ok
                THEN Added = 2 * (provider_calls - 1) + 1
                ELSE IF turn_result = ProviderError
                THEN Added = 2 * (provider_calls - 1)
                ELSE /\ turn_result = IterationLimit
                     /\ provider_calls = MAX_TOOL_ITERATIONS
                     /\ Added = 2 * MAX_TOOL_ITERATIONS)

\* A turn has ended with a final answer on its third provider call, five
\* messages after the two it began with.
C30_Witness ==
    /\ turn_pc = "done" /\ turn_result.ok
    /\ provider_calls = 3
    /\ Added = 5
    /\ SubSeq(history, 1, Len(TurnStartHistory)) = TurnStartHistory

\* ------------------------------------------------------------------ C29

\* C29: in the interactive loop the history stays bounded: at the moment each
\* new user input is appended the history holds at most 50 non-system
\* messages, whatever sequence of successful and failed turns preceded it.
C29_BoundedAtEachInput ==
    non_system_count(loop_history) <= MAX_HISTORY_MESSAGES

\* ------------------------------------------------------------------ C31
\* The marker pairs <<i, j>> the scan of a text takes: an opening marker at i
\* that no earlier opening marker leaves pending, and the first closing marker
\* after it at j.
ScannedPairs(text) ==
    {ij \in (1..Len(text)) \X (1..Len(text)) :
        /\ ij[1] < ij[2]
        /\ text[ij[1]] = OPEN
        /\ text[ij[2]] = CLOSE
        /\ \A k \in (ij[1] + 1)..(ij[2] - 1) : text[k] # CLOSE
        /\ unmatched_open(SubSeq(text, 1, ij[1] - 1)) = 0}

\* The content of a pair deserializes to an object with a text "name".
named_object(inner) ==
    /\ well_formed(inner)
    /\ Json(trim(inner)[1]).name # <<>>

NamedPairs(text) ==
    {ij \in ScannedPairs(text) :
        named_object(SubSeq(text, ij[1] + 1, ij[2] - 1))}

\* The call the claim assigns to a named pair: the object's name, and its
\* "arguments" value or the empty mapping.
CallOf(text, ij) ==
    LET parsed == Json(trim(SubSeq(text, ij[1] + 1, ij[2] - 1))[1]) IN
    [name |-> parsed.name[1],
     arguments |-> IF parsed.arguments = <<>> THEN "{}"
                   ELSE parsed.arguments[1]]

\* C31 as claimed: parse_tool_calls returns one call per marker pair whose
\* content deserializes to an object with a text "name", and no other call;
\* each call carries that name and the object's arguments, or the empty
\* mapping when "arguments" is absent.
C31_CallsOnlyForNamedObjects ==
    parse_output # <<>> =>
        LET calls == parse_output[1].calls IN
        /\ Len(calls) = Cardinality(NamedPairs(parse_input))
        /\ \A k \in 1..Len(calls) :
              \E ij \in NamedPairs(parse_input) :
                  calls[k] = CallOf(parse_input, ij)

\* What the code does instead: one call per pair whose content deserializes
\* at all, named "" when the value has no text "name".
C31_CallsForEveryJsonValue ==
    parse_output # <<>> =>
        LET calls == parse_output[1].calls
            parsed == {ij \in ScannedPairs(parse_input) :
                          well_formed(SubSeq(parse_input, ij[1] + 1, ij[2] - 1))}
        IN  /\ Len(calls) = Cardinality(parsed)
            /\ \A k \in 1..Len(calls) :
                  \/ calls[k].name = ""
                  \/ \E ij \in NamedPairs(parse_input) :
                        calls[k] = CallOf(parse_input, ij)

C31_NamelessCall ==
    /\ parse_output # <<>>
    /\ parse_input = <<OPEN, J_ARRAY, CLOSE>>
    /\ parse_output[1].calls = <<[name |-> "", arguments |-> "{}"]>>

\* ------------------------------------------------------------------ C32
\* A store call that returns in the step it starts in.
ReturnsFrom(op) ==
    /\ store_calls' = store_calls + 1
    /\ pc' = pc
    /\ ret'.op = op

\* An add_message call pushes its message on a stored session.
PushStep(p) ==
    /\ store_calls' = store_calls + 1
    /\ pc[p] = "idle"
    /\ pc'[p] = "add_trim"

\* Session id is stamped with the present time, every other session is as
\* it was, and no session is added or removed.
Refreshed(id) ==
    /\ DOMAIN sessions' = DOMAIN sessions
    /\ sessions'[id].last_activity = now
    /\ \A i \in DOMAIN sessions \ {id} : sessions'[i] = sessions[i]

\* C32: get_history and add_message on a stored session set its
\* last_activity to the present time (so a sweep with a positive timeout at
\* that time keeps it), get_history changing nothing else; list_sessions and
\* session_exists leave the store as it is: same sessions, same histories,
\* same last_activity.
C32_ReadsAndWritesRefresh ==
    [][/\ (ReturnsFrom("get_history") /\ ret'.ok) =>
              /\ Refreshed(ret'.id)
              /\ sessions'[ret'.id].history = sessions[ret'.id].history
              /\ timeout_secs > 0 =>
                    as_secs(now - sessions'[ret'.id].last_activity) < timeout_secs
       /\ \A p \in Procs : PushStep(p) =>
              /\ Refreshed(arg'[p].id)
              /\ timeout_secs > 0 =>
                    as_secs(now - sessions'[arg'[p].id].last_activity)
                        < timeout_secs
       /\ (ReturnsFrom("list_sessions") \/ ReturnsFrom("session_exists")) =>
              sessions' = sessions]_vars

\* A session created at time 0 was read at a later time, which moved its
\* last_activity to that time.
C32_Witness ==
    /\ ret.op = "get_history" /\ ret.ok
    /\ now > 0
    /\ sessions[ret.id].created_at = 0
    /\ sessions[ret.id].last_activity = now

\* ------------------------------------------------------------------ C33
\* Caller q can start every store operation at once.
CanStartAll(q) ==
    /\ ENABLED get_history(q)
    /\ ENABLED add_message_push(q)
    /\ ENABLED list_sessions(q)
    /\ ENABLED cleanup_expired(q)
    /\ (Cardinality(DOMAIN sessions) >= max_sessions \/ next_uuid < MaxIds)
          => ENABLED create_session_check(q)

\* C33: the store lock is never held by a handler whose provider call is in
\* flight; whoever holds the lock is inside a store method, which it can
\* finish at once and does finish whether or not any provider call returns;
\* and while the lock is free every other caller can start any store
\* operation, whatever provider calls are in flight.
C33_LockFreeOfProviderCalls ==
    /\ [](\A p \in Procs : pc[p] = "chat_provider" => lock # p)
    /\ [](lock # NoProc =>
            /\ pc[lock] \in {"create_insert", "add_trim"}
            /\ ENABLED (create_session_insert(lock) \/ add_message_trim(lock)))
    /\ [](\A q \in Procs :
            (lock_free /\ pc[q] = "idle" /\ store_calls < MaxCalls)
                => CanStartAll(q))
    /\ \A q \in Procs :
            (pc[q] \in {"create_insert", "add_trim"}) ~> (pc[q] = "idle")

\* One handler's provider call is in flight while the other caller is
\* inside a store method, holding the lock.
C33_Witness ==
    /\ pc["c1"] = "chat_provider"
    /\ pc["c2"] = "add_trim"
    /\ lock = "c2"

\* ------------------------------------------------------------------ C34
\* execute, called by p, returns before the sub-agent is called: from the
\* reading of the arguments, the lookup and the depth check, or from the
\* creation of the provider.
PreflightReturn(p) ==
    \/ /\ deleg_pc[p] = "idle"
       /\ deleg_started' = deleg_started + 1
       /\ deleg_pc' = deleg_pc
       /\ deleg_ret'.by = p
    \/ /\ deleg_pc[p] = "admitted"
       /\ deleg_pc'[p] = "idle"

\* The return matches the failure: Err for a missing argument,
\* Ok(success = false) for an agent that is not configured, for one whose
\* provider cannot be created, and for the depth limit.
PreflightResult(r) ==
    /\ r.agent = "" =>
          r = DelegErr(r.by, "", <<"Missing 'agent' parameter">>)
    /\ r.error = <<"Missing 'prompt' parameter">> =>
          r.returns = "Err"
    /\ (r.agent # "" /\ r.agent \notin AgentNames) =>
          \/ r = DelegErr(r.by, r.agent, <<"Missing 'prompt' parameter">>)
          \/ r = DelegFail(r.by, r.agent, <<"Unknown agent", r.agent>>)
    /\ r.agent \in AgentNames =>
          \/ r = DelegErr(r.by, r.agent, <<"Missing 'prompt' parameter">>)
          \/ /\ r.returns = "Ok" /\ ~r.success
             /\ r.error[1] = DEPTH_LIMIT
          \/ /\ ~Agents[r.agent].provider_known
             /\ r = DelegFail(r.by, r.agent,
                              <<"Failed to create provider", r.agent>>)

\* C34: a delegation that fails before its sub-agent call makes no sub-agent
\* call and leaves the depth counter as it was; a missing 'agent' or 'prompt'
\* argument makes execute return an error, an unknown agent name or a
\* provider that cannot be created makes it return Ok with success = false;
\* and a target whose provider cannot be created never gets a sub-agent call.
C34_PreflightFailuresLeaveNoTrace ==
    [][\A p \in DelegProcs :
        /\ PreflightReturn(p) =>
              /\ sub_calls' = sub_calls
              /\ current_depth' = current_depth
              /\ deleg_ret'.by = p
              /\ PreflightResult(deleg_ret')
        /\ (deleg_pc[p] = "admitted"
              /\ ~Agents[deleg_arg[p].agent[1]].provider_known) =>
              deleg_pc'[p] # "awaiting"]_vars

\* A delegation to the target whose provider cannot be created was refused
\* while another delegation's sub-agent call was in flight.
C34_Witness ==
    /\ deleg_ret.error = <<"Failed to create provider", "broken">>
    /\ current_depth = 1
    /\ \E p \in DelegProcs : deleg_pc[p] = "awaiting"

\* ------------------------------------------------------------------ C35
\* C35 as claimed: in every reachable state of the gateway and the store,
\* every stored session with a non-empty history has the system prompt as its
\* first message and holds exactly one system message.
C35_SystemPromptFirst ==
    \A i \in DOMAIN sessions :
        LET h == sessions[i].history IN
        h # <<>> =>
            /\ h[1] = SYSTEM_PROMPT
            /\ Cardinality({k \in 1..Len(h) : h[k].role = "system"}) = 1

\* A session whose first message is a user's: a Chat naming the session was
\* handled between its creation and its seeding.
C35_UserMessageFirst ==
    \E i \in DOMAIN sessions :
        /\ Len(sessions[i].history) >= 2
        /\ sessions[i].history[1].role = "user"
        /\ sessions[i].history[2] = SYSTEM_PROMPT

\* ------------------------------------------------------------------ C36
\* C36 as claimed: the history passed to the provider for a Chat ends with
\* that Chat's own user message, also when several connections send Chat
\* messages on one session id concurrently.
C36_HistoryEndsWithOwnMessage ==
    \A k \in 1..Len(gw_calls) :
        /\ gw_calls[k].history # <<>>
        /\ gw_calls[k].history[Len(gw_calls[k].history)] =
              ChatMessage("user", gw_calls[k].content)

\* What holds instead: the history passed holds the Chat's own user message.
C36_HistoryHoldsOwnMessage ==
    \A k \in 1..Len(gw_calls) :
        \E a \in 1..Len(gw_calls[k].history) :
            gw_calls[k].history[a] = ChatMessage("user", gw_calls[k].content)

\* Two provider calls on one session, the second made with a history whose
\* last message is the other connection's user message.
C36_OthersMessageLast ==
    \E k \in 1..Len(gw_calls) :
        LET h == gw_calls[k].history IN
        /\ Len(h) >= 2
        /\ h[Len(h)].role = "user"
        /\ h[Len(h)].content # gw_calls[k].content
        /\ h[Len(h) - 1] = ChatMessage("user", gw_calls[k].content)

\* ------------------------------------------------------------------ C37
\* The provider call of handler c fails.
ProviderFails(c) == StepFrom(c, "chat_provider") /\ RepliesError(c)

\* The user message of a Chat of handler c is appended.
UserAppended(c) ==
    StepFrom(c, "chat_add_user") /\ gw_pc'[c] = "chat_history"

\* C37: when the provider call of a Chat fails, the handler sends the
\* provider Error and leaves the store as it is, so the session keeps the
\* user message already appended and gains no assistant message; and the
\* next Chat's user message is appended after whatever the session holds,
\* so that a failed Chat followed by a successful one leaves two consecutive
\* user messages before the assistant reply.
C37_FailedChatKeepsUserMessage ==
    [][\A c \in Conns :
        /\ ProviderFails(c) =>
              /\ Sent(c) = <<SrvError(ErrProvider)>>
              /\ sessions' = sessions
        /\ UserAppended(c) =>
              AppendedTo(gw_cur[c].session_id,
                         ChatMessage("user", gw_cur[c].content))]_vars

\* A session seeded with the system prompt holds two consecutive user
\* messages and then the assistant reply, on a connection that was sent the
\* provider Error.
C37_Witness ==
    \E i \in DOMAIN sessions, c \in Conns :
        LET h == sessions[i].history IN
        /\ Len(h) = 4
        /\ h[1] = SYSTEM_PROMPT
        /\ h[2].role = "user" /\ h[3].role = "user"
        /\ h[4].role = "assistant"
        /\ \E k \in 1..Len(outbox[c]) : outbox[c][k] = SrvError(ErrProvider)
        /\ outbox[c][Len(outbox[c])] = SrvMessage(h[4].content, i)

\* ------------------------------------------------------------------ C38
\* The depth check of a delegation runs: execute is entered and gets as far
\* as the check or returns before it.
DepthCheckRuns == deleg_started' = deleg_started + 1

\* C38: within one turn the depth counter is 0 whenever a delegation's depth
\* check runs and whenever no sub-agent call is in flight; hence the
\* depth-limit result is returned only for a target with max_depth = 0, with
\* the depth read as 0, and a target is admitted only if its max_depth is at
\* least 1.
C38_DepthZeroWithinTurn ==
    /\ [](deleg_pc[TurnCaller] # "awaiting" => current_depth = 0)
    /\ [][DepthCheckRuns =>
            /\ current_depth = 0
            /\ (deleg_ret' # deleg_ret /\ deleg_ret'.error # <<>>
                  /\ deleg_ret'.error[1] = DEPTH_LIMIT) =>
                  /\ Agents[deleg_ret'.agent].max_depth = 0
                  /\ deleg_ret'.error = <<DEPTH_LIMIT, 0, 0>>
            /\ deleg_pc'[TurnCaller] = "admitted" =>
                  Agents[deleg_arg'[TurnCaller].agent[1]].max_depth >= 1]_vars

\* After two delegations that reached their sub-agents, one of them to the
\* target with max_depth 1, a delegation to the target with max_depth 0 is
\* rejected at depth 0.
C38_Witness ==
    /\ deleg_ret.error = <<DEPTH_LIMIT, 0, 0>>
    /\ sub_calls = 2
    /\ current_depth = 0

\* ------------------------------------------------------------------ C39
\* The only system message of h, if any, is its first message.
SystemOnlyAtHead(h) == \A i \in 2..Len(h) : h[i].role # "system"

\* Either trim is applied.
AnyTrimStep == trim_n' = trim_n + 1

\* C39: Session::trim_history of the session store and trim_history of the
\* agent loop, both with the limit 50, give the same result on every history
\* whose only system message, if any, is at index 0: whichever of the two is
\* applied to such a history, the result is what the other returns for it.
C39_TrimsAgree ==
    [][(/\ AnyTrimStep
        /\ SystemOnlyAtHead(trim_h)
        /\ Len(trim_h) <= MAX_HISTORY_MESSAGES + SessionSlack) =>
            /\ trim_h' = trim_history(trim_h)
            /\ trim_h' = Session_trim_history(trim_h)]_vars

\* Session::trim_history shortened a history of the system prompt and more
\* than the limit of user and assistant messages to what trim_history
\* returns for it.
C39_Witness ==
    /\ trim_by = "session"
    /\ trim_n = 1
    /\ trim_prev = TrimInput("system", MAX_HISTORY_MESSAGES + SessionSlack - 1,
                             0, TRUE)
    /\ Len(trim_h) = MAX_HISTORY_MESSAGES + 1
    /\ trim_h = trim_history(trim_prev)

\* Where the two differ: a system message behind index 0 is kept by
\* Session::trim_history and counted, and possibly removed, by trim_history.
C39_TrimsDifferBehindHead ==
    /\ trim_by = "session"
    /\ trim_n = 1
    /\ ~SystemOnlyAtHead(trim_prev)
    /\ trim_h # trim_history(trim_prev)

\* ------------------------------------------------------------------ C40
\* Handler c is busy with a frame it has received.
Busy(c) == gw_pc[c] \notin {"recv", "closed"}

\* C40: assuming every provider call returns and the store lock is granted
\* fairly, every text frame the gateway receives gets at least one reply and
\* the handler then awaits the next frame: a frame is either replied to in
\* the step that receives it or makes the handler busy; a busy handler
\* eventually awaits the next frame; and the step that takes it back there
\* sends a reply.
C40_EveryFrameAnswered ==
    /\ [][\A c \in Conns :
            /\ gw_frames' = gw_frames + 1 =>
                    \E d \in Conns :
                        /\ gw_pc[d] = "recv"
                        /\ gw_pc'[d] # "recv" \/ Len(Sent(d)) >= 1
            /\ (Busy(c) /\ gw_pc'[c] # gw_pc[c]) =>
                    /\ gw_pc'[c] # "closed"
                    /\ gw_pc'[c] = "recv" => Len(Sent(c)) >= 1]_vars
    /\ \A c \in Conns : Busy(c) ~> (gw_pc[c] = "recv")

\* One connection was answered on all its frames, an unparseable one among
\* them, and awaits the next.
C40_Witness ==
    \E c \in Conns :
        /\ gw_pc[c] = "recv"
        /\ gw_frames = MaxFrames
        /\ \E k \in 1..Len(outbox[c]) : outbox[c][k] = SrvError(ErrInvalid)
        /\ outbox[c][Len(outbox[c])].type = "message"
        /\ \A d \in Conns \ {c} : outbox[d] = <<>>

============================================================================
